---- MODULE Spec2Model ----
(***************************************************************************)
(* A model of pimalaya/keyring: the I/O-free flows and coroutines that     *)
(* describe keyring operations, and the Secret Service driver that         *)
(* services them over D-Bus.                                               *)
(*                                                                         *)
(* The repository holds several independent state machines; each has its   *)
(* own group of variables and its own specification:                       *)
(*   SpecCoroutines  src/src/coroutines/{read,write,delete}.rs             *)
(*   SpecFlows       src/src/flows/*.rs, src/src/state.rs,                 *)
(*                   src/src/handlers/std.rs                               *)
(*   SpecEntryFlow   src/src/secret_service/dbus_blocking/flow.rs          *)
(*   SpecSecretService                                                     *)
(*                   src/lib/src/secret-service/dbus/blocking/std.rs,      *)
(*                   src/src/secret_service/dbus/crypto/rust_crypto/std.rs *)
(*   SpecPrompt      SecretService::prompt of                              *)
(*                   src/lib/src/secret-service/dbus/blocking/std.rs,      *)
(*                   one step at a time                                    *)
(*   SpecCrypto      encrypt and decrypt of the rust_crypto and openssl    *)
(*                   connectors on a flow of dbus_blocking/flow.rs         *)
(*   SpecDh          src/src/secret_service_blocking/crypto/openssl.rs     *)
(*   SpecTwins       two instances of one coroutine, flow or entry flow,   *)
(*                   given the same calls                                  *)
(*   SpecFlowLoop    a driver that calls next() and the std handler in     *)
(*                   turn on a flow of src/src/flows                       *)
(*   SpecReadEntry   src/lib/src/flow/read-entry.rs                        *)
(*   SpecPow         pow_base_exp_mod of crypto/openssl.rs                 *)
(*   SpecHkdf        Keypair::derive_shared of crypto/openssl.rs over an   *)
(*                   HKDF that may fail                                    *)
(* A specification leaves the variables of the other groups at their idle  *)
(* value.                                                                  *)
(***************************************************************************)
EXTENDS Integers, Sequences, FiniteSets, TLC

VARIABLES
    \* ---- resumable coroutines (src/src/coroutines) ----
    co,         \* the coroutine: [kind, input], input an Option
    conew,      \* the arguments the coroutine was built from
    coarg,      \* argument of the last resume call (an Option<Io>)
    coret,      \* result of the last resume call
    cocalls,    \* number of resume calls since new
    conones,    \* number of resume(None) calls since new
    \* ---- capability-style flows (src/src/flows, state.rs, handlers) ----
    fl,         \* the flow: [kind, state], state a State of state.rs
    flret,      \* result of the last next() call
    flcalls,    \* number of next() calls since new
    flemit,     \* number of next() calls since new that returned an Io step
    flhandled,  \* number of handler calls on the flow's state since new
    flserved,   \* number of those that succeeded on the flow's own Io
    fltouched,  \* a handler acted on the state since the last next()
    hret,       \* result of the last handler call
    keychain,   \* the OS keychain: Entry -> Option<password>
    \* ---- Secret Service entry flows (secret_service/dbus_blocking) ----
    efconn,     \* the crypto IoConnector: [encryption, session_path, shared_key]
    ef,         \* the flow: [kind, state, session_path, secret, salt]
    efout,      \* what next() returned since new, in order
    efgiven,    \* a driver gave the flow a secret since the last step
    \* ---- one call of SecretService::prompt ----
    prpc,       \* where the call is: match_signal, prompt, process,
                \* match_stop, returned
    prticks,    \* iterations of the wait loop made so far
    prresult,   \* the local `result`
    prret,      \* what prompt() returned
    prcalls,    \* the proxy calls made, in order
    prtoken,    \* match_signal returned a token: the subscription exists
    prsignal,   \* the Completed signal the callback received, if any
    \* ---- a crypto connector at work on an entry flow ----
    crprov,     \* the provider: "rust_crypto" or "openssl"
    crconn,     \* the crypto IoConnector: [session_path, shared_key]
    crflow,     \* the flow: [kind, state, session_path, secret, salt]
    crop,       \* the last call on the flow
    crret,      \* the result of the last encrypt or decrypt
    crplain,    \* the flow's secret before the last encrypt
    crn,        \* crypto calls made on the flow since new
    \* ---- a Diffie-Hellman key agreement ----
    dhpriv,     \* the private exponent of this side's keypair
    dhpeer,     \* the public key bytes received from the peer
    dhpeerpriv, \* the peer's private exponent, if the peer drew a keypair
    dhikm,      \* the input keying material this side built, if any
    dhkey,      \* the key this side derived, if any
    dhpeerkey,  \* the key the peer derived, if any
    \* ---- two instances of one flow or coroutine, given the same inputs ----
    twtape,     \* the calls made on the first instance, in order
    twa,        \* the first instance: [family, self]
    twb,        \* the second instance, which replays the tape later
    twouta,     \* what the calls returned on the first instance
    twoutb,     \* what the calls returned on the second instance
    \* ---- the ReadEntry flow of src/lib/src/flow/read-entry.rs ----
    re,         \* the flow: [state], state being [key, secret]
    reop,       \* the last call made on the flow
    reret,      \* what the last next() returned
    retaken,    \* what the last take_secret() returned
    recalls,    \* calls made on the flow since new
    \* ---- Secret Service driver (lib/src/secret-service/dbus/blocking) ----
    ssconn,     \* the driver's IoConnector: [service, session]
    sscrypto,   \* the crypto IoConnector: [session_path, shared_key]
    dm,         \* the Secret Service daemon
    sf,         \* the flow handed to the connectors: [key, secret, salt]
    sfplain,    \* the secret the flow was built with (an Option)
    ssops,      \* the connector calls on the flow that succeeded or had an effect
    ssop,       \* the last connector call made on the flow
    ssret,      \* result of the last connector call
    sscalls,    \* the D-Bus calls the last connector call made, in order
    written,    \* Entry -> secret of the last write, if it was a whole one
    deleted,    \* Entry -> the last write or delete was a successful delete
    \* ---- pow_base_exp_mod applied to one set of arguments ----
    pwbase,     \* the base
    pwexp,      \* the exponent
    pwmod,      \* the modulus
    pwret,      \* what pow_base_exp_mod returned, if it was called
    \* ---- Keypair::derive_shared with an HKDF that may fail ----
    hkpriv,     \* the private exponent
    hkpeer,     \* the peer's public key bytes
    hkret,      \* what hkdf returned, if it was called
    hkkey       \* the key derive_shared handed back, if it did

covars == <<co, conew, coarg, coret, cocalls, conones>>

flvars ==
    <<fl, flret, flcalls, flemit, flhandled, flserved, fltouched, hret,
      keychain>>

efvars == <<efconn, ef, efout, efgiven>>

ssvars ==
    <<ssconn, sscrypto, dm, sf, sfplain, ssops, ssop, ssret, sscalls,
      written, deleted>>

prvars == <<prpc, prticks, prresult, prret, prcalls, prtoken, prsignal>>

crvars == <<crprov, crconn, crflow, crop, crret, crplain, crn>>

dhvars == <<dhpriv, dhpeer, dhpeerpriv, dhikm, dhkey, dhpeerkey>>

twvars == <<twtape, twa, twb, twouta, twoutb>>

revars == <<re, reop, reret, retaken, recalls>>

pwvars == <<pwbase, pwexp, pwmod, pwret>>

hkvars == <<hkpriv, hkpeer, hkret, hkkey>>

vars ==
    <<covars, flvars, efvars, ssvars, prvars, crvars, dhvars,
      twvars, revars, pwvars, hkvars>>

\* what the actions of one group leave alone
notco ==
    <<flvars, efvars, ssvars, prvars, crvars, dhvars, twvars,
      revars, pwvars, hkvars>>

notfl ==
    <<covars, efvars, ssvars, prvars, crvars, dhvars, twvars,
      revars, pwvars, hkvars>>

notef ==
    <<covars, flvars, ssvars, prvars, crvars, dhvars, twvars,
      revars, pwvars, hkvars>>

notss ==
    <<covars, flvars, efvars, prvars, crvars, dhvars, twvars,
      revars, pwvars, hkvars>>

notpr ==
    <<covars, flvars, efvars, ssvars, crvars, dhvars, twvars,
      revars, pwvars, hkvars>>

notcr ==
    <<covars, flvars, efvars, ssvars, prvars, dhvars, twvars,
      revars, pwvars, hkvars>>

notdh ==
    <<covars, flvars, efvars, ssvars, prvars, crvars, twvars,
      revars, pwvars, hkvars>>

nottw ==
    <<covars, flvars, efvars, ssvars, prvars, crvars, dhvars,
      revars, pwvars, hkvars>>

notre ==
    <<covars, flvars, efvars, ssvars, prvars, crvars, dhvars,
      twvars, pwvars, hkvars>>

notpw ==
    <<covars, flvars, efvars, ssvars, prvars, crvars, dhvars,
      twvars, revars, hkvars>>

nothk ==
    <<covars, flvars, efvars, ssvars, prvars, crvars, dhvars,
      twvars, revars, pwvars>>

\* ------------------------------------------------------------------------
\* Option and Result values
\* ------------------------------------------------------------------------

None == [some |-> FALSE]

Some(x) == [some |-> TRUE, val |-> x]

\* Result<T, E>: v is the T of Ok, or the E of Err
Ok(x) == [ok |-> TRUE, v |-> x]

Err(e) == [ok |-> FALSE, v |-> e]

Unit == [tag |-> "()"]

\* no call has returned yet
NoResult == Err([tag |-> "NoResult"])

\* ------------------------------------------------------------------------
\* Bounds and input domains
\* ------------------------------------------------------------------------

\* resume()/next() calls made on one coroutine or flow
MaxCalls == 4

\* connector calls made on one Secret Service flow
MaxOps == 2

Services == {"svc"}

Names == {"a", "b"}

\* SecretString values handed to the flows and coroutines
SecretStrings == {"s1", "s2"}

\* src/src/entry.rs: Entry { service, name }
Entry(service, name) == [service |-> service, name |-> name]

Entries == {Entry(s, n) : s \in Services, n \in Names}

\* ------------------------------------------------------------------------
\* src/src/io.rs: the Io enum of the resumable coroutines
\* ------------------------------------------------------------------------

IoUnavailableInput == [tag |-> "UnavailableInput"]

IoUnexpectedInput(io) == [tag |-> "UnexpectedInput", io |-> io]

\* Io::Read(Result<SecretString, Entry>)
IoRead(res) == [tag |-> "Read", res |-> res]

\* Io::Write(Result<(), (Entry, SecretString)>)
IoWrite(res) == [tag |-> "Write", res |-> res]

\* Io::Delete(Result<(), Entry>)
IoDelete(res) == [tag |-> "Delete", res |-> res]

WriteInput(entry, secret) == [entry |-> entry, secret |-> secret]

\* every Io value without a nested UnexpectedInput
IoAtoms ==
    {IoUnavailableInput}
    \cup {IoRead(Ok(s)) : s \in SecretStrings}
    \cup {IoRead(Err(e)) : e \in Entries}
    \cup {IoWrite(Ok(Unit))}
    \cup {IoWrite(Err(WriteInput(e, s))) : e \in Entries, s \in SecretStrings}
    \cup {IoDelete(Ok(Unit))}
    \cup {IoDelete(Err(e)) : e \in Entries}

\* the values a driver may hand to resume(Some(io))
IoInputs == IoAtoms \cup {IoUnexpectedInput(io) : io \in IoAtoms}

\* ------------------------------------------------------------------------
\* src/src/coroutines: Read, Write, Delete
\* ------------------------------------------------------------------------

\* Read::new(input) / Delete::new(input) / Write::new(entry, secret)
CoNewRead(entry) == [kind |-> "Read", input |-> Some(entry)]

CoNewDelete(entry) == [kind |-> "Delete", input |-> Some(entry)]

CoNewWrite(entry, secret) ==
    [kind |-> "Write", input |-> Some(WriteInput(entry, secret))]

\* a take() that reads the field and leaves it in place
TakeKeep(opt) == [taken |-> opt, left |-> opt]

\* Option::take(): the value taken, and the field afterwards
Take(opt) == [taken |-> opt, left |-> None]

\* Read::resume(&mut self, input: Option<Io>) -> Result<SecretString, Io>
ReadResume(self, input) ==
    IF ~input.some
    THEN LET t == Take(self.input) IN
         IF ~t.taken.some
         THEN [self |-> [self EXCEPT !.input = t.left],
               ret |-> Err(IoUnavailableInput)]
         ELSE [self |-> [self EXCEPT !.input = t.left],
               ret |-> Err(IoRead(Err(t.taken.val)))]
    ELSE IF input.val.tag = "Read" /\ input.val.res.ok
         THEN [self |-> self, ret |-> Ok(input.val.res.v)]
         ELSE [self |-> self, ret |-> Err(IoUnexpectedInput(input.val))]

\* Write::resume(&mut self, input: Option<Io>) -> Result<(), Io>
WriteResume(self, input) ==
    IF ~input.some
    THEN LET t == Take(self.input) IN
         IF ~t.taken.some
         THEN [self |-> [self EXCEPT !.input = t.left],
               ret |-> Err(IoUnavailableInput)]
         ELSE [self |-> [self EXCEPT !.input = t.left],
               ret |-> Err(IoWrite(Err(t.taken.val)))]
    ELSE IF input.val.tag = "Write" /\ input.val.res.ok
         THEN [self |-> self, ret |-> Ok(Unit)]
         ELSE [self |-> self, ret |-> Err(IoUnexpectedInput(input.val))]

\* a resume that accepts any Io::Delete, the request shape included
DeleteResumeAnyDelete(self, input) ==
    IF ~input.some
    THEN LET t == Take(self.input) IN
         IF ~t.taken.some
         THEN [self |-> [self EXCEPT !.input = t.left],
               ret |-> Err(IoUnavailableInput)]
         ELSE [self |-> [self EXCEPT !.input = t.left],
               ret |-> Err(IoDelete(Err(t.taken.val)))]
    ELSE IF input.val.tag = "Delete"
         THEN [self |-> self, ret |-> Ok(Unit)]
         ELSE [self |-> self, ret |-> Err(IoUnexpectedInput(input.val))]

\* Delete::resume(&mut self, input: Option<Io>) -> Result<(), Io>
DeleteResume(self, input) ==
    IF ~input.some
    THEN LET t == Take(self.input) IN
         IF ~t.taken.some
         THEN [self |-> [self EXCEPT !.input = t.left],
               ret |-> Err(IoUnavailableInput)]
         ELSE [self |-> [self EXCEPT !.input = t.left],
               ret |-> Err(IoDelete(Err(t.taken.val)))]
    ELSE IF input.val.tag = "Delete" /\ input.val.res.ok
         THEN [self |-> self, ret |-> Ok(Unit)]
         ELSE [self |-> self, ret |-> Err(IoUnexpectedInput(input.val))]

Resume(self, input) ==
    CASE self.kind = "Read" -> ReadResume(self, input)
      [] self.kind = "Write" -> WriteResume(self, input)
      [] self.kind = "Delete" -> DeleteResume(self, input)

\* ------------------------------------------------------------------------
\* src/src/state.rs: State { entry, secret, done }
\* ------------------------------------------------------------------------

\* State::new(entry)
StateNew(entry) == [entry |-> entry, secret |-> None, done |-> None]

\* State::done(&mut self): self.done.replace(true)
StateDone(st) == [st EXCEPT !.done = Some(TRUE)]

\* State::set_secret(&mut self, secret): replaces the secret, then done()
StateSetSecret(st, secret) == StateDone([st EXCEPT !.secret = Some(secret)])

\* State::take_secret(&mut self): [taken, state afterwards]
StateTakeSecret(st) ==
    LET t == Take(st.secret) IN
    [taken |-> t.taken, state |-> [st EXCEPT !.secret = t.left]]

\* ------------------------------------------------------------------------
\* src/src/flows: Read, Write, Delete
\* ------------------------------------------------------------------------

\* the I/O step a flow asks for: Io::Read, Io::Write, Io::Delete
FlowIo(kind) == [tag |-> kind]

FlowIos == {FlowIo(k) : k \in {"Read", "Write", "Delete"}}

\* Read::new(entry)
FlNewRead(entry) == [kind |-> "Read", state |-> StateNew(entry)]

\* Write::new(entry, secret)
FlNewWrite(entry, secret) ==
    [kind |-> "Write", state |-> StateSetSecret(StateNew(entry), secret)]

\* Delete::new(entry)
FlNewDelete(entry) == [kind |-> "Delete", state |-> StateNew(entry)]

\* Read::next(&mut self) -> Result<SecretString, Io>
ReadNext(self) ==
    LET t == StateTakeSecret(self.state) IN
    IF t.taken.some
    THEN [self |-> [self EXCEPT !.state = t.state], ret |-> Ok(t.taken.val)]
    ELSE [self |-> [self EXCEPT !.state = t.state],
          ret |-> Err(FlowIo("Read"))]

\* Write::next(&mut self) -> Result<(), Io>
WriteNext(self) ==
    LET t == Take(self.state.done) IN
    IF t.taken = Some(TRUE)
    THEN [self |-> [self EXCEPT !.state.done = t.left], ret |-> Ok(Unit)]
    ELSE [self |-> [self EXCEPT !.state.done = t.left],
          ret |-> Err(FlowIo("Write"))]

\* Delete::next(&mut self) -> Result<(), Io>
DeleteNext(self) ==
    LET t == Take(self.state.done) IN
    IF t.taken = Some(TRUE)
    THEN [self |-> [self EXCEPT !.state.done = t.left], ret |-> Ok(Unit)]
    ELSE [self |-> [self EXCEPT !.state.done = t.left],
          ret |-> Err(FlowIo("Delete"))]

FlowNext(self) ==
    CASE self.kind = "Read" -> ReadNext(self)
      [] self.kind = "Write" -> WriteNext(self)
      [] self.kind = "Delete" -> DeleteNext(self)

\* ------------------------------------------------------------------------
\* src/lib/src/flow/read-entry.rs: ReadEntry over the State of that crate
\* ------------------------------------------------------------------------

\* State::read(key): the state of a read, without a secret
LibStateRead(key) == [key |-> key, secret |-> None]

\* State::take_secret(&mut self): [taken, state afterwards]
LibStateTakeSecret(st) ==
    [taken |-> st.secret, state |-> [st EXCEPT !.secret = None]]

\* what a driver does through AsMut<State>: it puts the secret it read
LibStatePutSecret(st, secret) == [st EXCEPT !.secret = Some(secret)]

\* ReadEntry::new(key)
ReadEntryNew(key) == [state |-> LibStateRead(key)]

\* ReadEntry::take_secret(&mut self)
ReadEntryTakeSecret(self) ==
    LET t == LibStateTakeSecret(self.state) IN
    [self |-> [self EXCEPT !.state = t.state], ret |-> t.taken]

\* a next() that hands out the step by taking the secret away
ReadEntryNextTaking(self) ==
    LET t == LibStateTakeSecret(self.state) IN
    [self |-> [self EXCEPT !.state = t.state],
     ret |-> IF t.taken.some THEN None ELSE Some(FlowIo("Read"))]

\* <ReadEntry as Iterator>::next
ReadEntryNext(self) ==
    [self |-> self,
     ret |-> IF ~self.state.secret.some THEN Some(FlowIo("Read")) ELSE None]

\* ------------------------------------------------------------------------
\* src/src/handlers/std.rs: the blocking handler over the OS keychain
\* ------------------------------------------------------------------------

\* keyring::Error values the keychain calls return
KeyringError(tag) == [tag |-> tag]

\* what the platform does to one handler call: nothing, keyring::Entry::new
\* fails, or the credential call itself fails
HandlerFaults == {"none", "entry", "platform"}

\* a read that fetches the password and forgets to put it into the state
HandlerReadForgetful(st, kc, fault) ==
    IF fault = "entry"
    THEN [state |-> st, kc |-> kc, ret |-> Err(KeyringError("Invalid"))]
    ELSE IF fault = "platform"
    THEN [state |-> st, kc |-> kc,
          ret |-> Err(KeyringError("PlatformFailure"))]
    ELSE IF ~kc[st.entry].some
    THEN [state |-> st, kc |-> kc, ret |-> Err(KeyringError("NoEntry"))]
    ELSE [state |-> st, kc |-> kc, ret |-> Ok(Unit)]

\* read(state: &mut State) -> Result<()>
HandlerRead(st, kc, fault) ==
    IF fault = "entry"
    THEN [state |-> st, kc |-> kc, ret |-> Err(KeyringError("Invalid"))]
    ELSE IF fault = "platform"
    THEN [state |-> st, kc |-> kc,
          ret |-> Err(KeyringError("PlatformFailure"))]
    ELSE IF ~kc[st.entry].some
    THEN [state |-> st, kc |-> kc, ret |-> Err(KeyringError("NoEntry"))]
    ELSE [state |-> StateSetSecret(st, kc[st.entry].val), kc |-> kc,
          ret |-> Ok(Unit)]

\* write(state: &mut State) -> Result<()>
HandlerWrite(st, kc, fault) ==
    LET t == StateTakeSecret(st) IN
    IF ~t.taken.some
    THEN [state |-> t.state, kc |-> kc, ret |-> Err(KeyringError("NoEntry"))]
    ELSE IF fault = "entry"
    THEN [state |-> t.state, kc |-> kc, ret |-> Err(KeyringError("Invalid"))]
    ELSE IF fault = "platform"
    THEN [state |-> t.state, kc |-> kc,
          ret |-> Err(KeyringError("PlatformFailure"))]
    ELSE [state |-> StateDone(t.state),
          kc |-> [kc EXCEPT ![st.entry] = Some(t.taken.val)],
          ret |-> Ok(Unit)]

\* delete(state: &mut State) -> Result<()>
HandlerDelete(st, kc, fault) ==
    IF fault = "entry"
    THEN [state |-> st, kc |-> kc, ret |-> Err(KeyringError("Invalid"))]
    ELSE IF fault = "platform"
    THEN [state |-> st, kc |-> kc,
          ret |-> Err(KeyringError("PlatformFailure"))]
    ELSE IF ~kc[st.entry].some
    THEN [state |-> st, kc |-> kc, ret |-> Err(KeyringError("NoEntry"))]
    ELSE [state |-> StateDone(st), kc |-> [kc EXCEPT ![st.entry] = None],
          ret |-> Ok(Unit)]

\* handle(flow: impl AsMut<State>, io: Io) -> Result<()>
Handle(st, io, kc, fault) ==
    CASE io.tag = "Read" -> HandlerRead(st, kc, fault)
      [] io.tag = "Write" -> HandlerWrite(st, kc, fault)
      [] io.tag = "Delete" -> HandlerDelete(st, kc, fault)

\* ------------------------------------------------------------------------
\* src/src/secret_service_blocking/crypto/openssl.rs: Diffie-Hellman
\* ------------------------------------------------------------------------

\* DH_PRIME. The program's prime is the 1024-bit RFC 2409 group 2 prime; the
\* model computes in the group of a small safe prime (2 * 1019 + 1).
DH_PRIME == 2039

DH_GENERATOR == 2

\* length of the HKDF input keying material, and of the random private
\* key. The program's is 128, the byte length of its prime; the model's is
\* the byte length of the model's prime.
DH_KEY_BYTES == 2

\* AesKey = [u8; 16]
AES_KEY_BYTES == 16

\* the AES block, and the IV drawn by encrypt
AES_BLOCK_BYTES == 16

RECURSIVE PowLoop(_, _, _, _)
\* the while loop of pow_base_exp_mod
PowLoop(base, exp, result, modulus) ==
    IF exp = 0
    THEN result
    ELSE PowLoop((base * base) % modulus, exp \div 2,
                 IF exp % 2 = 1 THEN (result * base) % modulus ELSE result,
                 modulus)

\* pow_base_exp_mod(base, exp, modulus)
pow_base_exp_mod(base, exp, modulus) == PowLoop(base, exp, 1, modulus)

RECURSIVE ToBytesBe(_)
\* BigUint::to_bytes_be: the shortest big-endian form, [0] for zero
ToBytesBe(n) ==
    IF n < 256 THEN <<n>> ELSE Append(ToBytesBe(n \div 256), n % 256)

RECURSIVE FromBytesLoop(_, _)
FromBytesLoop(bytes, n) ==
    IF n = 0 THEN 0 ELSE FromBytesLoop(bytes, n - 1) * 256 + bytes[n]

\* BigUint::from_bytes_be
FromBytesBe(bytes) == FromBytesLoop(bytes, Len(bytes))

\* vec![0; n]
Zeros(n) == [i \in 1..n |-> 0]

RECURSIVE WeightedSum(_, _, _)
\* a digest of bytes[lo..hi], by halves
WeightedSum(bytes, lo, hi) ==
    IF lo > hi THEN 0
    ELSE IF lo = hi THEN (lo * (bytes[lo] + 1)) % 65521
    ELSE LET mid == (lo + hi) \div 2 IN
         (WeightedSum(bytes, lo, mid) + WeightedSum(bytes, mid + 1, hi))
             % 65521

\* hkdf(ikm, None, okm): HKDF-SHA256 with no salt and empty info, filling
\* the 16 bytes of okm. SHA-256 is modelled by a digest that depends on
\* every byte of ikm and on its position.
Hkdf(ikm) ==
    LET digest == WeightedSum(ikm, 1, Len(ikm)) IN
    [i \in 1..AES_KEY_BYTES |-> (digest * i + 31 * i) % 256]

\* Keypair { private, public } as built by Keypair::generate from the
\* private exponent the RNG drew
Keypair(private) ==
    [private |-> private,
     public |-> pow_base_exp_mod(DH_GENERATOR, private, DH_PRIME)]

\* the input sent with OpenSession on a Dh session:
\* keypair.public.to_bytes_be()
OpenSessionInput(keypair) == ToBytesBe(keypair.public)

\* an input keying material that is not padded
common_secret_unpadded(keypair, server_public_key_bytes) ==
    LET server_public_key == FromBytesBe(server_public_key_bytes)
        common_secret ==
            pow_base_exp_mod(server_public_key, keypair.private, DH_PRIME)
    IN  Ok(ToBytesBe(common_secret))

\* the first half of Keypair::derive_shared: the input keying material.
\* `DH_KEY_BYTES - len` is a usize subtraction: were the secret longer, it
\* would overflow (a panic, or an allocation that aborts), which is the
\* result tagged "panic".
common_secret_padded(keypair, server_public_key_bytes) ==
    LET server_public_key == FromBytesBe(server_public_key_bytes)
        common_secret ==
            pow_base_exp_mod(server_public_key, keypair.private, DH_PRIME)
        common_secret_bytes == ToBytesBe(common_secret)
    IN  IF Len(common_secret_bytes) > DH_KEY_BYTES
        THEN Err([tag |-> "panic"])
        ELSE Ok(Zeros(DH_KEY_BYTES - Len(common_secret_bytes))
                    \o common_secret_bytes)

\* a derivation that raises the peer's public key to its own public key
derive_shared_public_exponent(keypair, server_public_key_bytes) ==
    Hkdf(common_secret_padded([keypair EXCEPT !.private = keypair.public],
                              server_public_key_bytes).v)

\* Keypair::derive_shared(&self, server_public_key_bytes) -> AesKey
derive_shared(keypair, server_public_key_bytes) ==
    Hkdf(common_secret_padded(keypair, server_public_key_bytes).v)

\* hkdf(ikm, None, okm) -> Result<(), ErrorStack>: every OpenSSL call but
\* add_hkdf_info is followed by `?`, so a failing call returns the error
\* stack and leaves okm as the caller built it
hkdf(ikm, okm, fault) ==
    IF fault
    THEN [ret |-> Err([tag |-> "ErrorStack"]), okm |-> okm]
    ELSE [ret |-> Ok(Unit), okm |-> Hkdf(ikm)]

\* Keypair::derive_shared with the result of hkdf kept beside the key:
\* `hkdf(ikm, salt, &mut okm);` drops the Result and okm is returned
derive_shared_hkdf(keypair, server_public_key_bytes, fault) ==
    LET ikm == common_secret_padded(keypair, server_public_key_bytes).v
        r == hkdf(ikm, Zeros(AES_KEY_BYTES), fault)
    IN  [hkdf |-> r.ret, key |-> Some(r.okm)]

\* private exponents the RNG may draw (any 128 bytes: zero, small, above
\* the prime)
PrivateKeys == {2500}

\* private exponents of the Secret Service daemon
ServerPrivateKeys == {77}

\* ------------------------------------------------------------------------
\* src/src/secret_service/dbus_blocking/crypto/openssl/std.rs: IoConnector
\* ------------------------------------------------------------------------

Algorithms == {"Plain", "Dh"}

SessionPaths == {"/session/1", "/session/2"}

\* IoConnector::new(connection, encryption), OpenSession having returned
\* (out, session_path); out holds the daemon's public key bytes
CryptoConnectorNew(encryption, keypair, out, session_path) ==
    IF encryption = "Plain"
    THEN [encryption |-> encryption, session_path |-> session_path,
          shared_key |-> None]
    ELSE [encryption |-> encryption, session_path |-> session_path,
          shared_key |-> Some(derive_shared(keypair, out))]

\* the connectors a successful IoConnector::new can return
CryptoConnectors ==
    {CryptoConnectorNew(enc, Keypair(priv), ToBytesBe(Keypair(spriv).public),
                        path) :
        enc \in Algorithms, priv \in PrivateKeys,
        spriv \in ServerPrivateKeys, path \in SessionPaths}

\* ------------------------------------------------------------------------
\* src/src/secret_service/dbus_blocking/flow.rs: ReadEntryFlow, WriteEntryFlow
\* ------------------------------------------------------------------------

\* secrets as bytes (SecretSlice<u8>): a short one, and one that fills an
\* AES block
ByteSecrets == {<<104, 105>>, [i \in 1..AES_BLOCK_BYTES |-> 64 + i]}

\* salts a driver may give to a flow
Salts == {<<>>, [i \in 1..AES_BLOCK_BYTES |-> i]}

\* Io::Entry(crate::Io::...) and Io::Crypto(crypto::Io::...)
IoEntry(io) == [tag |-> "Entry", io |-> io]

IoCrypto(io) == [tag |-> "Crypto", io |-> io]

\* ReadEntryFlow::new(session_path)
ReadEntryFlowNew(session_path) ==
    [kind |-> "Read", state |-> Some("Read"), session_path |-> session_path,
     secret |-> None, salt |-> None]

\* WriteEntryFlow::new(session_path, secret)
WriteEntryFlowNew(session_path, secret) ==
    [kind |-> "Write", state |-> Some("Encrypt"),
     session_path |-> session_path, secret |-> Some(secret), salt |-> None]

\* a next() whose Read arm forgets to move on to Decrypt
ReadEntryFlowNextStuck(self) ==
    LET t == Take(self.state) IN
    IF ~t.taken.some
    THEN [self |-> [self EXCEPT !.state = t.left], ret |-> None]
    ELSE IF t.taken.val = "Read"
    THEN [self |-> [self EXCEPT !.state = Some("Read")],
          ret |-> Some(IoEntry("Read"))]
    ELSE [self |-> [self EXCEPT !.state = t.left],
          ret |-> Some(IoCrypto("Decrypt"))]

\* a next() of the read entry flow that also looks at how many calls were
\* made in the whole process, not only at the flow
ReadEntryFlowNextShared(self) ==
    IF Len(twtape) > 1
    THEN ReadEntryFlowNextStuck(self)
    ELSE LET t == Take(self.state) IN
         IF ~t.taken.some
         THEN [self |-> [self EXCEPT !.state = t.left], ret |-> None]
         ELSE IF t.taken.val = "Read"
         THEN [self |-> [self EXCEPT !.state = Some("Decrypt")],
               ret |-> Some(IoEntry("Read"))]
         ELSE [self |-> [self EXCEPT !.state = t.left],
               ret |-> Some(IoCrypto("Decrypt"))]

\* <ReadEntryFlow as Iterator>::next
ReadEntryFlowNext(self) ==
    LET t == Take(self.state) IN
    IF ~t.taken.some
    THEN [self |-> [self EXCEPT !.state = t.left], ret |-> None]
    ELSE IF t.taken.val = "Read"
    THEN [self |-> [self EXCEPT !.state = Some("Decrypt")],
          ret |-> Some(IoEntry("Read"))]
    ELSE [self |-> [self EXCEPT !.state = t.left],
          ret |-> Some(IoCrypto("Decrypt"))]

\* a next() whose Write arm puts the Write state back
WriteEntryFlowNextRearm(self) ==
    LET t == Take(self.state) IN
    IF ~t.taken.some
    THEN [self |-> [self EXCEPT !.state = t.left], ret |-> None]
    ELSE IF t.taken.val = "Encrypt"
    THEN [self |-> [self EXCEPT !.state = Some("Write")],
          ret |-> Some(IoCrypto("Encrypt"))]
    ELSE [self |-> [self EXCEPT !.state = Some("Write")],
          ret |-> Some(IoEntry("Write"))]

\* <WriteEntryFlow as Iterator>::next
WriteEntryFlowNext(self) ==
    LET t == Take(self.state) IN
    IF ~t.taken.some
    THEN [self |-> [self EXCEPT !.state = t.left], ret |-> None]
    ELSE IF t.taken.val = "Encrypt"
    THEN [self |-> [self EXCEPT !.state = Some("Write")],
          ret |-> Some(IoCrypto("Encrypt"))]
    ELSE [self |-> [self EXCEPT !.state = t.left],
          ret |-> Some(IoEntry("Write"))]

EntryFlowNext(self) ==
    IF self.kind = "Read" THEN ReadEntryFlowNext(self)
    ELSE WriteEntryFlowNext(self)

\* Flow::take_secret / crypto::Flow::take_secret
FlowTakeSecret(self) ==
    LET t == Take(self.secret) IN
    [taken |-> t.taken, self |-> [self EXCEPT !.secret = t.left]]

\* Flow::take_salt / crypto::Flow::take_salt
FlowTakeSalt(self) ==
    LET t == Take(self.salt) IN
    [taken |-> t.taken, self |-> [self EXCEPT !.salt = t.left]]

\* Flow::give_secret / crypto::Flow::give_secret
FlowGiveSecret(self, secret) == [self EXCEPT !.secret = Some(secret)]

\* Flow::give_salt / crypto::Flow::give_salt
FlowGiveSalt(self, salt) == [self EXCEPT !.salt = Some(salt)]

\* the flows a driver can build on the connector's session
EfBuilt(conn) ==
    {ReadEntryFlowNew(conn.session_path)}
    \cup {WriteEntryFlowNew(conn.session_path, s) : s \in ByteSecrets}

EfIdle ==
    /\ efconn = CryptoConnectorNew("Plain", Keypair(0), <<>>, "/session/1")
    /\ ef = ReadEntryFlowNew("/session/1")
    /\ efout = <<>>
    /\ efgiven = FALSE

\* a connector was built and a flow on its session
EfInit ==
    /\ efconn \in CryptoConnectors
    /\ ef \in EfBuilt(efconn)
    /\ efout = <<>>
    /\ efgiven = FALSE

\* the driver drops the flow and builds another on the same session
EfNew ==
    /\ ef' \in EfBuilt(efconn)
    /\ efout' = <<>>
    /\ efgiven' = FALSE
    /\ UNCHANGED <<efconn, notef>>

\* flow.next()
EfNext ==
    /\ Len(efout) < MaxCalls
    /\ LET r == EntryFlowNext(ef) IN
        /\ ef' = r.self
        /\ efout' = Append(efout, r.ret)
        /\ efgiven' = (efgiven /\ ~r.ret.some)
    /\ UNCHANGED <<efconn, notef>>

\* a driver takes the secret out of the flow
EfTakeSecret ==
    /\ ef' = FlowTakeSecret(ef).self
    /\ UNCHANGED <<efconn, efout, efgiven, notef>>

\* a driver takes the salt out of the flow
EfTakeSalt ==
    /\ ef' = FlowTakeSalt(ef).self
    /\ UNCHANGED <<efconn, efout, efgiven, notef>>

\* a driver gives a secret to the flow
EfGiveSecret ==
    \E s \in ByteSecrets :
        /\ ef' = FlowGiveSecret(ef, s)
        /\ efgiven' = TRUE
        /\ UNCHANGED <<efconn, efout, notef>>

\* a driver gives a salt to the flow
EfGiveSalt ==
    \E s \in Salts :
        /\ ef' = FlowGiveSalt(ef, s)
        /\ UNCHANGED <<efconn, efout, efgiven, notef>>

\* ------------------------------------------------------------------------
\* src/src/secret_service/dbus/crypto/rust_crypto/std.rs: the crypto
\* IoConnector on a session (src/secret-service-lib/src/session.rs)
\* ------------------------------------------------------------------------

\* the 16-byte IVs the RNG may draw
Ivs == {[i \in 1..AES_BLOCK_BYTES |-> i],
        [i \in 1..AES_BLOCK_BYTES |-> (7 * i + 200) % 256]}

\* the 16-byte IVs the daemon may draw
DaemonIvs == {[i \in 1..AES_BLOCK_BYTES |-> (3 * i + 100) % 256]}

\* an error value of the driver or of the crypto connector
SsError(tag) == [tag |-> tag]

\* a padding that adds nothing to a plaintext of whole blocks
Pkcs7PadToBlock(data) ==
    LET n == (AES_BLOCK_BYTES - (Len(data) % AES_BLOCK_BYTES))
             % AES_BLOCK_BYTES
    IN  data \o [i \in 1..n |-> n]

\* block_padding::Pkcs7 padding of a plaintext
Pkcs7Pad(data) ==
    LET n == AES_BLOCK_BYTES - (Len(data) % AES_BLOCK_BYTES) IN
    data \o [i \in 1..n |-> n]

\* an unpadding that leaves the padding bytes in place
Pkcs7UnpadKeep(data) ==
    IF Len(data) = 0 \/ Len(data) % AES_BLOCK_BYTES # 0
    THEN Err(SsError("UnpadError"))
    ELSE Ok(data)

\* block_padding::Pkcs7 unpadding: Err(UnpadError) on a bad padding
Pkcs7Unpad(data) ==
    IF Len(data) = 0 \/ Len(data) % AES_BLOCK_BYTES # 0
    THEN Err(SsError("UnpadError"))
    ELSE LET n == data[Len(data)] IN
         IF /\ n \in 1..AES_BLOCK_BYTES
            /\ \A i \in (Len(data) - n + 1)..Len(data) : data[i] = n
         THEN Ok(SubSeq(data, 1, Len(data) - n))
         ELSE Err(SsError("UnpadError"))

\* encrypt(data, key) with the IV drawn: AES-128-CBC over the padded
\* data. The block cipher is modelled by adding the key bytes modulo 256,
\* the chaining XOR by adding the previous cipher block.
Aes128CbcEncrypt(data, key, iv) ==
    LET p == Pkcs7Pad(data)
        c[i \in 1..Len(p)] ==
            LET j == ((i - 1) % AES_BLOCK_BYTES) + 1 IN
            (p[i] + key[j]
             + IF i <= AES_BLOCK_BYTES THEN iv[j]
               ELSE c[i - AES_BLOCK_BYTES]) % 256
    IN  c

\* decrypt(encrypted_data, key, iv), iv of 16 bytes
Aes128CbcDecrypt(data, key, iv) ==
    LET p == [i \in 1..Len(data) |->
                LET j == ((i - 1) % AES_BLOCK_BYTES) + 1 IN
                (data[i] + 512 - key[j]
                 - IF i <= AES_BLOCK_BYTES THEN iv[j]
                   ELSE data[i - AES_BLOCK_BYTES]) % 256]
    IN  Pkcs7Unpad(p)

\* Session::new_plain(path)
SessionNewPlain(path) ==
    [path |-> path, encryption |-> "Plain", keypair |-> None,
     output |-> None]

\* Session::new_dh(path, keypair, output)
SessionNewDh(path, keypair, output) ==
    [path |-> path, encryption |-> "Dh", keypair |-> Some(keypair),
     output |-> Some(output)]

\* a constructor that never derives the key
RustCryptoNewKeyless(session) ==
    Ok([session_path |-> session.path, shared_key |-> None])

\* IoConnector::new(session); the key is derived as derive_shared does
RustCryptoNew(session) ==
    IF session.encryption = "Dh"
    THEN IF ~session.output.some
         THEN Err(SsError("ParsePubkeyError"))
         ELSE IF ~session.keypair.some
         THEN Err(SsError("GetPrivkeyMissingError"))
         ELSE Ok([session_path |-> session.path,
                  shared_key |-> Some(derive_shared(session.keypair.val,
                                                    session.output.val))])
    ELSE Ok([session_path |-> session.path, shared_key |-> None])

\* an encrypt that keeps the IV to itself
RustCryptoEncryptNoSalt(self, flow, iv) ==
    LET t == FlowTakeSecret(flow) IN
    IF ~t.taken.some
    THEN [flow |-> t.self,
          ret |-> Err(SsError("EncryptUndefinedSecretError"))]
    ELSE IF ~self.shared_key.some
    THEN [flow |-> t.self,
          ret |-> Err(SsError("EncryptSecretMissingKeyError"))]
    ELSE [flow |-> FlowGiveSecret(t.self,
                      Aes128CbcEncrypt(t.taken.val, self.shared_key.val,
                                       iv)),
          ret |-> Ok(Unit)]

\* a read of the key that leaves None behind, as Option::take does
SharedKeyTaken(self) ==
    [self |-> [self EXCEPT !.shared_key = None], key |-> self.shared_key]

\* `self.shared_key.ok_or(..)` and `self.shared_key.unwrap()` behind
\* `&mut self`: Option<AesKey> is Copy, so the method consumes a copy and
\* the connector keeps its key
SharedKeyCopy(self) == [self |-> self, key |-> self.shared_key]

\* IoConnector::encrypt(flow), the RNG drawing iv
RustCryptoEncrypt(self, flow, iv) ==
    LET t == FlowTakeSecret(flow) IN
    IF ~t.taken.some
    THEN [flow |-> t.self,
          ret |-> Err(SsError("EncryptUndefinedSecretError"))]
    ELSE IF ~self.shared_key.some
    THEN [flow |-> t.self,
          ret |-> Err(SsError("EncryptSecretMissingKeyError"))]
    ELSE [flow |-> FlowGiveSalt(
                     FlowGiveSecret(t.self,
                        Aes128CbcEncrypt(t.taken.val, self.shared_key.val,
                                         iv)),
                     iv),
          ret |-> Ok(Unit)]

\* IoConnector::decrypt(flow). GenericArray::from_slice panics on an IV
\* that is not 16 bytes long: the panic is the result tagged "panic".
RustCryptoDecrypt(self, flow) ==
    LET t == FlowTakeSecret(flow) IN
    IF ~t.taken.some
    THEN [flow |-> t.self,
          ret |-> Err(SsError("DecryptUndefinedSecretError"))]
    ELSE IF ~self.shared_key.some
    THEN [flow |-> t.self,
          ret |-> Err(SsError("DecryptSecretMissingKeyError"))]
    ELSE LET u == FlowTakeSalt(t.self)
             salt == IF u.taken.some THEN u.taken.val ELSE <<>>
         IN  IF Len(salt) # AES_BLOCK_BYTES
             THEN [flow |-> u.self, ret |-> Err(SsError("panic"))]
             ELSE LET d == Aes128CbcDecrypt(t.taken.val,
                                            self.shared_key.val, salt)
                  IN  IF d.ok
                      THEN [flow |-> FlowGiveSecret(u.self, d.v),
                            ret |-> Ok(Unit)]
                      ELSE [flow |-> u.self,
                            ret |-> Err(SsError(
                                      "DecryptSecretRustCryptoError"))]

\* ------------------------------------------------------------------------
\* src/src/secret_service/dbus_blocking/crypto/openssl/std.rs: encrypt and
\* decrypt of the openssl IoConnector
\* ------------------------------------------------------------------------

\* what CipherCtx::decrypt_init does with an IV shorter than the cipher's:
\* the openssl crate is not part of the sources
OpensslShortIv == {"panic", "error"}

\* IoConnector::encrypt(flow), the RNG drawing iv. self.shared_key.unwrap()
\* panics on a connector without a key: the panic is the result tagged
\* "panic".
OpensslEncrypt(self, flow, iv) ==
    LET t == FlowTakeSecret(flow) IN
    IF ~t.taken.some
    THEN [flow |-> t.self,
          ret |-> Err(SsError("EncryptUndefinedSecretError"))]
    ELSE IF ~self.shared_key.some
    THEN [flow |-> t.self, ret |-> Err(SsError("panic"))]
    ELSE [flow |-> FlowGiveSalt(
                     FlowGiveSecret(t.self,
                        Aes128CbcEncrypt(t.taken.val, self.shared_key.val,
                                         iv)),
                     iv),
          ret |-> Ok(Unit)]

\* IoConnector::decrypt(flow)
OpensslDecrypt(self, flow, short_iv) ==
    LET t == FlowTakeSecret(flow) IN
    IF ~t.taken.some
    THEN [flow |-> t.self,
          ret |-> Err(SsError("DecryptUndefinedSecretError"))]
    ELSE LET u == FlowTakeSalt(t.self)
             salt == IF u.taken.some THEN u.taken.val ELSE <<>>
         IN  IF ~self.shared_key.some
             THEN [flow |-> u.self, ret |-> Err(SsError("panic"))]
             ELSE IF Len(salt) < AES_BLOCK_BYTES
             THEN [flow |-> u.self,
                   ret |-> Err(SsError(IF short_iv = "panic" THEN "panic"
                                       ELSE "DecryptSecretOpensslError"))]
             ELSE LET d == Aes128CbcDecrypt(t.taken.val,
                                            self.shared_key.val, salt)
                  IN  IF d.ok
                      THEN [flow |-> FlowGiveSecret(u.self, d.v),
                            ret |-> Ok(Unit)]
                      ELSE [flow |-> u.self,
                            ret |-> Err(SsError(
                                      "DecryptSecretOpensslError"))]

\* ------------------------------------------------------------------------
\* The Secret Service daemon at org.freedesktop.secrets, as the driver's
\* D-Bus calls observe it
\* ------------------------------------------------------------------------

\* Path::default()
EmptyPath == "/"

CollectionPaths ==
    {"/collection/login", "/collection/session", "/collection/default"}

NoItems == [c \in CollectionPaths |-> [e \in Entries |-> None]]

\* the daemon a connection may find: its aliases, its collections, and
\* whether it answers a creating call with a prompt
DaemonConfigs ==
    {[default |-> d.default, session |-> d.session,
      collections |-> d.collections, prompts |-> d.prompts,
      items |-> NoItems, key |-> None] :
        d \in {[default |-> "/collection/login", session |-> EmptyPath,
                collections |-> <<"/collection/login">>,
                prompts |-> FALSE],
               [default |-> EmptyPath, session |-> "/collection/session",
                collections |-> <<"/collection/session">>,
                prompts |-> FALSE],
               [default |-> EmptyPath, session |-> EmptyPath,
                collections |-> <<"/collection/login",
                                  "/collection/session">>,
                prompts |-> FALSE],
               [default |-> EmptyPath, session |-> EmptyPath,
                collections |-> <<>>, prompts |-> FALSE],
               [default |-> EmptyPath, session |-> EmptyPath,
                collections |-> <<>>, prompts |-> TRUE]}}

\* OpenSession(algorithm, input) on the daemon whose key pair is server:
\* with Dh the daemon derives the session key from the client's public
\* key and answers with its own
DaemonOpenSession(d, algorithm, input, server) ==
    IF algorithm = "Plain"
    THEN [dm |-> d, output |-> <<>>, path |-> "/session/1"]
    ELSE [dm |-> [d EXCEPT !.key = Some(derive_shared(server, input))],
          output |-> ToBytesBe(server.public), path |-> "/session/1"]

\* CreateItem(props, (session, params, value, "text/plain"), replace =
\* true) once the daemon carries it out: on a Dh session it decrypts
\* value with the session key and params as the IV
DaemonCreateItem(d, coll, entry, params, value) ==
    LET plain ==
            IF ~d.key.some THEN Ok(value)
            ELSE IF Len(params) # AES_BLOCK_BYTES
            THEN Err(SsError("InvalidArgs"))
            ELSE Aes128CbcDecrypt(value, d.key.val, params)
    IN  IF plain.ok
        THEN Ok([d EXCEPT !.items[coll][entry] = Some(plain.v)])
        ELSE plain

\* GetSecret(session) on an item: on a Dh session the daemon encrypts the
\* stored secret under the IV it drew
DaemonGetSecret(d, item, iv) ==
    LET stored == d.items[item.coll][item.entry].val IN
    IF d.key.some
    THEN [params |-> iv, value |-> Aes128CbcEncrypt(stored, d.key.val, iv)]
    ELSE [params |-> <<>>, value |-> stored]

\* CreateCollection(props, "default") once the daemon carries it out
DaemonCreateCollection(d) ==
    [d EXCEPT !.collections = Append(d.collections, "/collection/default"),
              !.default = "/collection/default"]

\* ------------------------------------------------------------------------
\* src/lib/src/secret-service/dbus/blocking/std.rs: the Secret Service
\* driver
\* ------------------------------------------------------------------------

\* the D-Bus call of a driver operation that fails, if any
DbusFaults ==
    {"none", "ReadAlias(default)", "ReadAlias(session)", "Collections",
     "CreateCollection", "SearchItems", "CreateItem", "GetSecret", "Delete"}

\* what happens to a prompt: the Completed signal that arrives, or the
\* call of prompt() that fails
PromptScenarios ==
    {"path", "dismissed", "not_path", "empty", "timeout", "process_error",
     "match_signal_error", "prompt_error", "match_stop_error"}

\* the errors that wrap a dbus::Error, and those of a prompt
DbusErrors ==
    {"GetDefaultCollectionError", "GetSessionCollectionError",
     "GetCollectionsError", "CreateDefaultCollectionError",
     "CreateItemError", "SearchItemsError", "GetSecretError",
     "DeleteItemError", "PromptError", "PromptMatchSignalError",
     "PromptMatchStopError", "PromptTimeoutError", "PromptDismissedError",
     "ParsePromptPathError", "ParsePromptSignalError"}

\* Error::GetItemNotFoundError(service, account)
GetItemNotFoundError(service, account) ==
    [tag |-> "GetItemNotFoundError", service |-> service,
     account |-> account]

\* SecretService::connect(encryption) on a daemon d, having succeeded
SecretServiceConnect(encryption, keypair, d, server) ==
    IF encryption = "Plain"
    THEN LET o == DaemonOpenSession(d, "Plain", <<>>, server) IN
         [session |-> SessionNewPlain(o.path), dm |-> o.dm]
    ELSE LET o == DaemonOpenSession(d, "Dh", OpenSessionInput(keypair),
                                    server) IN
         [session |-> SessionNewDh(o.path, keypair, o.output),
          dm |-> o.dm]

\* SecretService::prompt(path): the result, the calls made on the prompt
\* object, and whether the daemon carried out the prompted operation,
\* which makes the object at path created. The ticks of the wait loop are
\* not counted here.
prompt(scenario, created) ==
    IF scenario = "match_signal_error"
    THEN [ret |-> Err(SsError("PromptMatchSignalError")),
          calls |-> <<"AddMatch">>, carried |-> FALSE]
    ELSE IF scenario = "prompt_error"
    THEN [ret |-> Err(SsError("PromptError")),
          calls |-> <<"AddMatch", "Prompt">>, carried |-> FALSE]
    ELSE LET result ==
                 CASE scenario \in {"path", "match_stop_error"} ->
                          Ok(created)
                   [] scenario = "dismissed" ->
                          Err(SsError("PromptDismissedError"))
                   [] scenario = "not_path" ->
                          Err(SsError("ParsePromptPathError"))
                   [] scenario = "empty" ->
                          Err(SsError("ParsePromptSignalError"))
                   [] OTHER -> Err(SsError("PromptTimeoutError"))
         IN  [ret |-> IF scenario = "match_stop_error"
                      THEN Err(SsError("PromptMatchStopError"))
                      ELSE result,
              calls |-> <<"AddMatch", "Prompt", "RemoveMatch">>,
              carried |-> scenario \in {"path", "match_stop_error"}]

\* a lookup that goes on to Collections whatever the session alias names
get_default_collection_past_session(d, fault, scenario) ==
    LET Fail(tag, calls) ==
            [ret |-> Err(SsError(tag)), dm |-> d, calls |-> calls]
        Found(path, calls) == [ret |-> Ok(path), dm |-> d, calls |-> calls]
        c1 == <<"ReadAlias(default)">>
        c2 == Append(c1, "ReadAlias(session)")
        c3 == Append(c2, "Collections")
        c4 == Append(c3, "CreateCollection")
    IN  IF fault = "ReadAlias(default)"
        THEN Fail("GetDefaultCollectionError", c1)
        ELSE IF d.default # EmptyPath THEN Found(d.default, c1)
        ELSE IF fault = "ReadAlias(session)"
        THEN Fail("GetSessionCollectionError", c2)
        ELSE IF fault = "Collections"
        THEN Fail("GetCollectionsError", c3)
        ELSE IF d.collections # <<>> THEN Found(Head(d.collections), c3)
        ELSE IF fault = "CreateCollection"
        THEN Fail("CreateDefaultCollectionError", c4)
        ELSE IF ~d.prompts
        THEN [ret |-> Ok("/collection/default"),
              dm |-> DaemonCreateCollection(d), calls |-> c4]
        ELSE LET p == prompt(scenario, "/collection/default") IN
             [ret |-> p.ret,
              dm |-> IF p.carried THEN DaemonCreateCollection(d) ELSE d,
              calls |-> c4 \o p.calls]

\* SecretService::get_default_collection
get_default_collection(d, fault, scenario) ==
    LET Fail(tag, calls) ==
            [ret |-> Err(SsError(tag)), dm |-> d, calls |-> calls]
        Found(path, calls) == [ret |-> Ok(path), dm |-> d, calls |-> calls]
        c1 == <<"ReadAlias(default)">>
        c2 == Append(c1, "ReadAlias(session)")
        c3 == Append(c2, "Collections")
        c4 == Append(c3, "CreateCollection")
    IN  IF fault = "ReadAlias(default)"
        THEN Fail("GetDefaultCollectionError", c1)
        ELSE IF d.default # EmptyPath THEN Found(d.default, c1)
        ELSE IF fault = "ReadAlias(session)"
        THEN Fail("GetSessionCollectionError", c2)
        ELSE IF d.session # EmptyPath THEN Found(d.session, c2)
        ELSE IF fault = "Collections"
        THEN Fail("GetCollectionsError", c3)
        ELSE IF d.collections # <<>> THEN Found(Head(d.collections), c3)
        ELSE IF fault = "CreateCollection"
        THEN Fail("CreateDefaultCollectionError", c4)
        ELSE IF ~d.prompts
        THEN [ret |-> Ok("/collection/default"),
              dm |-> DaemonCreateCollection(d), calls |-> c4]
        ELSE LET p == prompt(scenario, "/collection/default") IN
             [ret |-> p.ret,
              dm |-> IF p.carried THEN DaemonCreateCollection(d) ELSE d,
              calls |-> c4 \o p.calls]

\* what a driver operation meets on daemon d, rest being the calls it
\* makes once it has the collection: one of its D-Bus calls failing, or
\* (when it comes to a prompt) the prompt ending in some way
SsEnvs(d, rest) ==
    LET calls == get_default_collection(d, "none", "path").calls \o rest
        made == {calls[i] : i \in 1..Len(calls)}
    IN  {[fault |-> f, scenario |-> "path"] :
            f \in {"none"} \cup (made \cap DbusFaults)}
        \cup {[fault |-> "none", scenario |-> s] :
                s \in IF d.prompts /\ made \cap {"CreateCollection",
                                                  "CreateItem"} # {}
                      THEN PromptScenarios ELSE {}}

\* a lookup that searches by service alone and takes the first item found
get_item_any_account(d, coll, service, account, fault) ==
    IF fault = "SearchItems"
    THEN Err(SsError("SearchItemsError"))
    ELSE LET found == {n \in Names : d.items[coll][Entry(service, n)].some}
         IN  IF found # {}
             THEN Ok([coll |-> coll,
                      entry |-> Entry(service,
                                      CHOOSE n \in found :
                                          n = "a" \/ found = {n})])
             ELSE Err(GetItemNotFoundError(service, account))

\* Collection::get_item(service, account), find_item included
get_item(d, coll, service, account, fault) ==
    IF fault = "SearchItems"
    THEN Err(SsError("SearchItemsError"))
    ELSE IF d.items[coll][Entry(service, account)].some
    THEN Ok([coll |-> coll, entry |-> Entry(service, account)])
    ELSE Err(GetItemNotFoundError(service, account))

\* a create_item that takes the path CreateItem returned for the item's,
\* empty or not
create_item_as_is(d, coll, service, account, secret, salt, fault, scenario) ==
    LET entry == Entry(service, account)
        made == DaemonCreateItem(d, coll, entry, salt, secret)
    IN  IF fault = "CreateItem" \/ ~made.ok
        THEN [ret |-> Err(SsError("CreateItemError")), dm |-> d,
              calls |-> <<"CreateItem">>]
        ELSE [ret |-> Ok([coll |-> coll, entry |-> entry]),
              dm |-> IF d.prompts THEN d ELSE made.v,
              calls |-> <<"CreateItem">>]

\* Collection::create_item(service, account, secret, salt)
create_item(d, coll, service, account, secret, salt, fault, scenario) ==
    LET entry == Entry(service, account)
        made == DaemonCreateItem(d, coll, entry, salt, secret)
    IN  IF fault = "CreateItem" \/ ~made.ok
        THEN [ret |-> Err(SsError("CreateItemError")), dm |-> d,
              calls |-> <<"CreateItem">>]
        ELSE IF ~d.prompts
        THEN [ret |-> Ok([coll |-> coll, entry |-> entry]), dm |-> made.v,
              calls |-> <<"CreateItem">>]
        ELSE LET p == prompt(scenario, [coll |-> coll, entry |-> entry]) IN
             [ret |-> p.ret, dm |-> IF p.carried THEN made.v ELSE d,
              calls |-> <<"CreateItem">> \o p.calls]

\* IoConnector::read(flow); iv is the IV the daemon draws
IoConnectorRead(self, flow, d, fault, scenario, iv) ==
    LET c == get_default_collection(d, fault, scenario) IN
    IF ~c.ret.ok
    THEN [flow |-> flow, dm |-> c.dm, ret |-> c.ret, calls |-> c.calls]
    ELSE LET i == get_item(c.dm, c.ret.v, self.service, flow.key, fault)
             calls == Append(c.calls, "SearchItems")
         IN  IF ~i.ok
             THEN [flow |-> flow, dm |-> c.dm, ret |-> i, calls |-> calls]
             ELSE IF fault = "GetSecret"
             THEN [flow |-> flow, dm |-> c.dm,
                   ret |-> Err(SsError("GetSecretError")),
                   calls |-> Append(calls, "GetSecret")]
             ELSE LET s == DaemonGetSecret(c.dm, i.v, iv) IN
                  [flow |-> FlowGiveSalt(FlowGiveSecret(flow, s.value),
                                         s.params),
                   dm |-> c.dm, ret |-> Ok(Unit),
                   calls |-> Append(calls, "GetSecret")]

\* a write that takes the salt before it looks at the secret
IoConnectorWriteSaltFirst(self, flow, d, fault, scenario) ==
    LET t == FlowTakeSecret(flow) IN
    IF ~t.taken.some
    THEN [flow |-> FlowTakeSalt(t.self).self, dm |-> d,
          ret |-> Err(SsError("WriteEmptySecretError")), calls |-> <<>>]
    ELSE LET u == FlowTakeSalt(t.self)
             salt == IF u.taken.some THEN u.taken.val ELSE <<>>
             c == get_default_collection(d, fault, scenario)
         IN  IF ~c.ret.ok
             THEN [flow |-> u.self, dm |-> c.dm, ret |-> c.ret,
                   calls |-> c.calls]
             ELSE LET i == create_item(c.dm, c.ret.v, self.service,
                                       flow.key, t.taken.val, salt, fault,
                                       scenario)
                  IN  [flow |-> u.self, dm |-> i.dm,
                       ret |-> IF i.ret.ok THEN Ok(Unit) ELSE i.ret,
                       calls |-> c.calls \o i.calls]

\* IoConnector::write(flow)
IoConnectorWrite(self, flow, d, fault, scenario) ==
    LET t == FlowTakeSecret(flow) IN
    IF ~t.taken.some
    THEN [flow |-> t.self, dm |-> d,
          ret |-> Err(SsError("WriteEmptySecretError")), calls |-> <<>>]
    ELSE LET u == FlowTakeSalt(t.self)
             salt == IF u.taken.some THEN u.taken.val ELSE <<>>
             c == get_default_collection(d, fault, scenario)
         IN  IF ~c.ret.ok
             THEN [flow |-> u.self, dm |-> c.dm, ret |-> c.ret,
                   calls |-> c.calls]
             ELSE LET i == create_item(c.dm, c.ret.v, self.service,
                                       flow.key, t.taken.val, salt, fault,
                                       scenario)
                  IN  [flow |-> u.self, dm |-> i.dm,
                       ret |-> IF i.ret.ok THEN Ok(Unit) ELSE i.ret,
                       calls |-> c.calls \o i.calls]

\* a delete that never makes the Delete call
IoConnectorDeleteKeep(self, flow, d, fault, scenario) ==
    LET c == get_default_collection(d, fault, scenario) IN
    IF ~c.ret.ok
    THEN [flow |-> flow, dm |-> c.dm, ret |-> c.ret, calls |-> c.calls]
    ELSE LET i == get_item(c.dm, c.ret.v, self.service, flow.key, fault)
             calls == Append(c.calls, "SearchItems")
         IN  IF ~i.ok
             THEN [flow |-> flow, dm |-> c.dm, ret |-> i, calls |-> calls]
             ELSE [flow |-> flow, dm |-> c.dm, ret |-> Ok(Unit),
                   calls |-> calls]

\* IoConnector::delete(flow); the daemon removes the item at the Delete
\* call
IoConnectorDelete(self, flow, d, fault, scenario) ==
    LET c == get_default_collection(d, fault, scenario) IN
    IF ~c.ret.ok
    THEN [flow |-> flow, dm |-> c.dm, ret |-> c.ret, calls |-> c.calls]
    ELSE LET i == get_item(c.dm, c.ret.v, self.service, flow.key, fault)
             calls == Append(c.calls, "SearchItems")
         IN  IF ~i.ok
             THEN [flow |-> flow, dm |-> c.dm, ret |-> i, calls |-> calls]
             ELSE IF fault = "Delete"
             THEN [flow |-> flow, dm |-> c.dm,
                   ret |-> Err(SsError("DeleteItemError")),
                   calls |-> Append(calls, "Delete")]
             ELSE [flow |-> flow,
                   dm |-> [c.dm EXCEPT
                             !.items[i.v.coll][i.v.entry] = None],
                   ret |-> Ok(Unit), calls |-> Append(calls, "Delete")]

\* ------------------------------------------------------------------------
\* the Secret Service driver's caller
\* ------------------------------------------------------------------------

\* the flows a caller hands to the connectors: a key, and the secret and
\* salt the connectors take and put; a write flow is built with its secret
SsFlows ==
    {[key |-> n, secret |-> None, salt |-> None] : n \in Names}
    \cup {[key |-> n, secret |-> Some(s), salt |-> None] :
            n \in Names, s \in ByteSecrets}

\* the connector calls made on the flow so far are exactly these, and all
\* of them succeeded
OpsOk(ops, names) ==
    /\ Len(ops) = Len(names)
    /\ \A i \in 1..Len(ops) : ops[i] = [op |-> names[i], ok |-> TRUE]

\* the calls on the flow so far, after call op returned ret: a call that
\* failed and changed nothing leaves no trace
Called(op, ret, changed) ==
    IF ret.ok \/ changed
    THEN Append(ssops, [op |-> op, ok |-> ret.ok])
    ELSE ssops

\* the entry the flow names on this connector
SsEntry == Entry(ssconn.service, sf.key)

SsIdle ==
    /\ ssconn = [service |-> "svc", session |-> SessionNewPlain("/session/1")]
    /\ sscrypto = RustCryptoNew(SessionNewPlain("/session/1")).v
    /\ dm = [default |-> "/collection/login", session |-> EmptyPath,
             collections |-> <<"/collection/login">>, prompts |-> FALSE,
             items |-> NoItems, key |-> None]
    /\ sf = [key |-> "a", secret |-> None, salt |-> None]
    /\ sfplain = None
    /\ ssops = <<>>
    /\ ssop = "new"
    /\ ssret = NoResult
    /\ sscalls = <<>>
    /\ written = [e \in Entries |-> None]
    /\ deleted = [e \in Entries |-> FALSE]

\* IoConnector::new(service, encryption) has connected to a daemon, the
\* crypto connector was built on its session, and the caller built a flow
SsInit ==
    \E encryption \in Algorithms, priv \in PrivateKeys,
       spriv \in ServerPrivateKeys, d \in DaemonConfigs, s \in Services :
        LET c == SecretServiceConnect(encryption, Keypair(priv), d,
                                      Keypair(spriv))
        IN  /\ ssconn = [service |-> s, session |-> c.session]
            /\ sscrypto = RustCryptoNew(c.session).v
            /\ dm = c.dm
            /\ sf \in SsFlows
            /\ sfplain = sf.secret
            /\ ssops = <<>>
            /\ ssop = "new"
            /\ ssret = NoResult
            /\ sscalls = <<>>
            /\ written = [e \in Entries |-> None]
            /\ deleted = [e \in Entries |-> FALSE]

\* the caller drops the flow and builds another
SsNew ==
    /\ sf' \in SsFlows
    /\ sfplain' = sf'.secret
    /\ ssops' = <<>>
    /\ ssop' = "new"
    /\ ssret' = NoResult
    /\ sscalls' = <<>>
    /\ UNCHANGED <<ssconn, sscrypto, dm, written, deleted, notss>>

\* crypto.encrypt(&mut flow)
SsEncrypt ==
    /\ Len(ssops) < MaxOps
    /\ \E iv \in Ivs :
        \E r \in {RustCryptoEncrypt(sscrypto, sf, iv)} :
        /\ sf' = r.flow
        /\ ssret' = r.ret
        /\ ssops' = Called("Encrypt", r.ret, r.flow # sf)
        /\ ssop' = "Encrypt"
    /\ sscalls' = <<>>
    /\ UNCHANGED <<ssconn, sscrypto, dm, sfplain, written, deleted, notss>>

\* crypto.decrypt(&mut flow)
SsDecrypt ==
    /\ Len(ssops) < MaxOps
    /\ \E r \in {RustCryptoDecrypt(sscrypto, sf)} :
        /\ sf' = r.flow
        /\ ssret' = r.ret
        /\ ssops' = Called("Decrypt", r.ret, r.flow # sf)
        /\ ssop' = "Decrypt"
    /\ sscalls' = <<>>
    /\ UNCHANGED <<ssconn, sscrypto, dm, sfplain, written, deleted, notss>>

\* dbus.read(&mut flow)
SsRead ==
    /\ Len(ssops) < MaxOps
    /\ \E env \in SsEnvs(dm, <<"SearchItems", "GetSecret">>),
          iv \in DaemonIvs :
        \E r \in {IoConnectorRead(ssconn, sf, dm, env.fault, env.scenario,
                                   iv)} :
        /\ sf' = r.flow
        /\ dm' = r.dm
        /\ ssret' = r.ret
        /\ sscalls' = r.calls
        /\ ssops' = Called("Read", r.ret, r.flow # sf \/ r.dm # dm)
        /\ ssop' = "Read"
    /\ UNCHANGED <<ssconn, sscrypto, sfplain, written, deleted, notss>>

\* dbus.write(&mut flow). written remembers the secret of a write flow
\* whose steps all succeeded (Encrypt first on a Dh session), and forgets
\* it at any other write of the entry. A write on a flow without a secret
\* is made at any time.
SsWrite ==
    /\ Len(ssops) < MaxOps \/ ~sf.secret.some
    /\ \E env \in SsEnvs(dm, <<"CreateItem">>) :
        \E r \in {IoConnectorWrite(ssconn, sf, dm, env.fault,
                                    env.scenario)} :
        LET whole ==
                /\ sfplain.some
                /\ OpsOk(ssops, IF ssconn.session.encryption = "Dh"
                                THEN <<"Encrypt">> ELSE <<>>)
                /\ r.ret.ok
        IN
        /\ sf' = r.flow
        /\ dm' = r.dm
        /\ ssret' = r.ret
        /\ sscalls' = r.calls
        /\ ssops' = Called("Write", r.ret, r.flow # sf \/ r.dm # dm)
        /\ ssop' = "Write"
        /\ written' = [written EXCEPT
                         ![SsEntry] = IF whole THEN sfplain ELSE None]
        /\ deleted' = [deleted EXCEPT ![SsEntry] = FALSE]
    /\ UNCHANGED <<ssconn, sscrypto, sfplain, notss>>

\* dbus.delete(&mut flow). deleted remembers that the last write or
\* delete of the entry was a delete that succeeded.
SsDelete ==
    /\ Len(ssops) < MaxOps
    /\ \E env \in SsEnvs(dm, <<"SearchItems", "Delete">>) :
        \E r \in {IoConnectorDelete(ssconn, sf, dm, env.fault,
                                     env.scenario)} :
        /\ sf' = r.flow
        /\ dm' = r.dm
        /\ ssret' = r.ret
        /\ sscalls' = r.calls
        /\ ssops' = Called("Delete", r.ret, r.flow # sf \/ r.dm # dm)
        /\ ssop' = "Delete"
        /\ written' = [written EXCEPT ![SsEntry] = None]
        /\ deleted' = [deleted EXCEPT
                         ![SsEntry] = IF r.ret.ok THEN TRUE ELSE @]
    /\ UNCHANGED <<ssconn, sscrypto, sfplain, notss>>

\* ------------------------------------------------------------------------
\* the flows' driver
\* ------------------------------------------------------------------------

FlBuilt ==
    {FlNewRead(e) : e \in Entries}
    \cup {FlNewDelete(e) : e \in Entries}
    \cup {FlNewWrite(e, s) : e \in Entries, s \in SecretStrings}

Keychains == [Entries -> {None} \cup {Some(s) : s \in SecretStrings}]

\* the state right after new(): next() not called yet
FlFresh(f) ==
    /\ fl = f
    /\ flret = NoResult
    /\ flcalls = 0
    /\ flemit = 0
    /\ flhandled = 0
    /\ flserved = 0
    /\ fltouched = FALSE
    /\ hret = NoResult

FlIdle ==
    /\ FlFresh(FlNewRead(Entry("svc", "a")))
    /\ keychain = [e \in Entries |-> None]

FlInit ==
    /\ \E f \in FlBuilt : FlFresh(f)
    /\ keychain \in Keychains

\* the driver drops the flow and builds another
FlNew ==
    \E f \in FlBuilt :
        /\ fl' = f
        /\ flret' = NoResult
        /\ flcalls' = 0
        /\ flemit' = 0
        /\ flhandled' = 0
        /\ flserved' = 0
        /\ fltouched' = FALSE
        /\ hret' = NoResult
        /\ UNCHANGED <<keychain, notfl>>

\* flow.next()
FlNext ==
    /\ flcalls < MaxCalls
    /\ LET r == FlowNext(fl) IN
        /\ fl' = r.self
        /\ flret' = r.ret
        /\ flemit' = IF r.ret.ok THEN flemit ELSE flemit + 1
    /\ flcalls' = flcalls + 1
    /\ fltouched' = FALSE
    /\ UNCHANGED <<flhandled, flserved, hret, keychain, notfl>>

\* handle(&mut flow, io): the driver services a step on the flow's state
FlHandle ==
    \E io \in FlowIos, fault \in HandlerFaults :
        /\ flhandled < MaxCalls
        /\ LET r == Handle(fl.state, io, keychain, fault) IN
            /\ fl' = [fl EXCEPT !.state = r.state]
            /\ keychain' = r.kc
            /\ hret' = r.ret
            /\ flserved' =
                IF r.ret.ok /\ io.tag = fl.kind /\ flret = Err(io)
                THEN flserved + 1 ELSE flserved
        /\ flhandled' = flhandled + 1
        /\ fltouched' = TRUE
        /\ UNCHANGED <<flret, flcalls, flemit, notfl>>

\* ------------------------------------------------------------------------
\* a driver loop over a flow: call next(); on Err(io) call handle(flow, io)
\* and go round again unless the handler failed; on Ok the loop is over
\* ------------------------------------------------------------------------

\* next() returned the flow's output
LoopDone == flret.ok

\* the handler returned an error, which the loop returns
LoopFailed == fltouched /\ ~hret.ok

\* the loop calls flow.next()
LoopNext ==
    /\ ~LoopDone
    /\ ~LoopFailed
    /\ flcalls = 0 \/ fltouched
    /\ FlNext

\* the loop hands the step next() returned to handle(&mut flow, io)
LoopHandle ==
    /\ ~LoopDone
    /\ flcalls > 0
    /\ ~fltouched
    /\ \E fault \in HandlerFaults :
        \E r \in {Handle(fl.state, flret.v, keychain, fault)} :
            /\ fl' = [fl EXCEPT !.state = r.state]
            /\ keychain' = r.kc
            /\ hret' = r.ret
            /\ flserved' = IF r.ret.ok THEN flserved + 1 ELSE flserved
    /\ flhandled' = flhandled + 1
    /\ fltouched' = TRUE
    /\ UNCHANGED <<flret, flcalls, flemit, notfl>>

\* ------------------------------------------------------------------------
\* the coroutines' driver
\* ------------------------------------------------------------------------

CoBuilt ==
    {CoNewRead(e) : e \in Entries}
    \cup {CoNewDelete(e) : e \in Entries}
    \cup {CoNewWrite(e, s) : e \in Entries, s \in SecretStrings}

\* the state right after new(): nothing resumed yet
CoFresh(c) ==
    /\ co = c
    /\ conew = c.input.val
    /\ coarg = None
    /\ coret = NoResult
    /\ cocalls = 0
    /\ conones = 0

CoIdle == CoFresh(CoNewRead(Entry("svc", "a")))

CoInit == \E c \in CoBuilt : CoFresh(c)

\* the driver drops the coroutine and builds another
CoNew ==
    \E c \in CoBuilt :
        /\ co' = c
        /\ conew' = c.input.val
        /\ coarg' = None
        /\ coret' = NoResult
        /\ cocalls' = 0
        /\ conones' = 0
        /\ UNCHANGED notco

\* resume(None)
CoResumeNone ==
    /\ cocalls < MaxCalls
    /\ LET r == Resume(co, None) IN
        /\ co' = r.self
        /\ coret' = r.ret
    /\ coarg' = None
    /\ cocalls' = cocalls + 1
    /\ conones' = conones + 1
    /\ UNCHANGED <<conew, notco>>

\* resume(Some(io))
CoResumeSome ==
    \E io \in IoInputs :
        /\ cocalls < MaxCalls
        /\ LET r == Resume(co, Some(io)) IN
            /\ co' = r.self
            /\ coret' = r.ret
        /\ coarg' = Some(io)
        /\ cocalls' = cocalls + 1
        /\ UNCHANGED <<conew, conones, notco>>

\* ------------------------------------------------------------------------
\* src/lib/src/secret-service/dbus/blocking/std.rs: SecretService::prompt,
\* step by step
\* ------------------------------------------------------------------------

\* let timeout = 5 * 60 * 60
PROMPT_TIMEOUT == 5 * 60 * 60

\* the body of a Completed signal: (dismissed, result), result being a
\* variant whose inner values are listed with their D-Bus signature
SignalResults ==
    {<<[sig |-> "o", v |-> "/collection/default"]>>,
     <<[sig |-> "s", v |-> "/collection/default"]>>,
     <<>>}

Signals == [dismissed : BOOLEAN, result : SignalResults]

\* a callback that looks at the result before the dismissed flag
PromptCompletedResultFirst(signal) ==
    IF Len(signal.result) >= 1
    THEN IF signal.result[1].sig = "o"
         THEN Ok(signal.result[1].v)
         ELSE Err(SsError("ParsePromptPathError"))
    ELSE IF signal.dismissed
    THEN Err(SsError("PromptDismissedError"))
    ELSE Err(SsError("ParsePromptSignalError"))

\* the callback given to match_signal: what it sends on the channel
PromptCompleted(signal) ==
    IF signal.dismissed
    THEN Err(SsError("PromptDismissedError"))
    ELSE IF Len(signal.result) >= 1
    THEN IF signal.result[1].sig = "o"
         THEN Ok(signal.result[1].v)
         ELSE Err(SsError("ParsePromptPathError"))
    ELSE Err(SsError("ParsePromptSignalError"))

\* what connection.process(1 s) meets: nothing within the second
\* (Ok(false)), a message that is not the Completed signal (Ok(true), the
\* channel stays empty), an error, or the Completed signal
ProcessOutcomes ==
    {[tag |-> "idle"], [tag |-> "other"], [tag |-> "error"]}
    \cup {[tag |-> "Completed", signal |-> s] : s \in Signals}

PrIdle ==
    /\ prpc = "match_signal"
    /\ prticks = 0
    /\ prresult = NoResult
    /\ prret = NoResult
    /\ prcalls = <<>>
    /\ prtoken = FALSE
    /\ prsignal = None

\* prompt(path) was entered
PrInit == PrIdle

\* prompt() returns ret
PrReturn(ret) ==
    /\ prpc' = "returned"
    /\ prret' = ret

\* proxy.match_signal(callback).map_err(PromptMatchSignalError)?
PrMatchSignal ==
    /\ prpc = "match_signal"
    /\ prcalls' = Append(prcalls, "match_signal")
    /\ \E ok \in BOOLEAN :
        IF ok
        THEN /\ prtoken' = TRUE
             /\ prpc' = "prompt"
             /\ UNCHANGED prret
        ELSE /\ PrReturn(Err(SsError("PromptMatchSignalError")))
             /\ UNCHANGED prtoken
    /\ UNCHANGED <<prticks, prresult, prsignal, notpr>>

\* proxy.prompt("").map_err(PromptError)?; let mut result =
\* Err(PromptTimeoutError)
PrPrompt ==
    /\ prpc = "prompt"
    /\ prcalls' = Append(prcalls, "prompt")
    /\ \E ok \in BOOLEAN :
        IF ok
        THEN /\ prresult' = Err(SsError("PromptTimeoutError"))
             /\ prpc' = "process"
             /\ UNCHANGED prret
        ELSE /\ PrReturn(Err(SsError("PromptError")))
             /\ UNCHANGED prresult
    /\ UNCHANGED <<prticks, prtoken, prsignal, notpr>>

\* one iteration of `for _ in 0..timeout`: connection.process(1 s), then
\* rx.try_recv() if a message was processed
PrProcess ==
    /\ prpc = "process"
    /\ prticks < PROMPT_TIMEOUT
    /\ prticks' = prticks + 1
    /\ \E o \in ProcessOutcomes :
        IF o.tag = "Completed"
        THEN /\ prsignal' = Some(o.signal)
             /\ prresult' = PromptCompleted(o.signal)
             /\ prpc' = "match_stop"
        ELSE /\ prpc' = IF o.tag = "error" \/ prticks' = PROMPT_TIMEOUT
                        THEN "match_stop" ELSE "process"
             /\ UNCHANGED <<prresult, prsignal>>
    /\ UNCHANGED <<prret, prcalls, prtoken, notpr>>

\* proxy.match_stop(token, true).map_err(PromptMatchStopError)?; result
PrMatchStop ==
    /\ prpc = "match_stop"
    /\ prcalls' = Append(prcalls, "match_stop")
    /\ \E ok \in BOOLEAN :
        PrReturn(IF ok THEN prresult
                 ELSE Err(SsError("PromptMatchStopError")))
    /\ UNCHANGED <<prticks, prresult, prtoken, prsignal, notpr>>

\* ------------------------------------------------------------------------
\* a crypto connector of either provider at work on an entry flow of
\* src/src/secret_service/dbus_blocking/flow.rs
\* ------------------------------------------------------------------------

Providers == {"rust_crypto", "openssl"}

\* the private keys of the two sides of a session
CrKeypairs == {<<2500, 77>>, <<1234, 999>>}

\* the connectors IoConnector::new can return: on a Plain session without a
\* key, on a Dh session with the key derived from the daemon's public key
CrConnectors ==
    {[session_path |-> "/session/1", shared_key |-> None]}
    \cup {[session_path |-> "/session/1",
           shared_key |->
               Some(derive_shared(Keypair(k[1]),
                                  ToBytesBe(Keypair(k[2]).public)))] :
            k \in CrKeypairs}

\* secrets of no byte, of two bytes, of one AES block, and of one byte more
CrSecrets ==
    {<<>>, <<104, 105>>, [i \in 1..AES_BLOCK_BYTES |-> 64 + i],
     [i \in 1..(AES_BLOCK_BYTES + 1) |-> 200 + 3 * i]}

CrBuilt ==
    {ReadEntryFlowNew("/session/1")}
    \cup {WriteEntryFlowNew("/session/1", s) : s \in CrSecrets}

CrFresh(f) ==
    /\ crflow = f
    /\ crop = "new"
    /\ crret = NoResult
    /\ crplain = None
    /\ crn = 0

CrIdle ==
    /\ crprov = "rust_crypto"
    /\ crconn = [session_path |-> "/session/1", shared_key |-> None]
    /\ CrFresh(ReadEntryFlowNew("/session/1"))

\* a connector was built and a flow on its session
CrInit ==
    /\ crprov \in Providers
    /\ crconn \in CrConnectors
    /\ \E f \in CrBuilt : CrFresh(f)

\* the driver drops the flow and builds another
CrNew ==
    /\ \E f \in CrBuilt : crflow' = f
    /\ crop' = "new"
    /\ crret' = NoResult
    /\ crplain' = None
    /\ crn' = 0
    /\ UNCHANGED <<crprov, crconn, notcr>>

\* crypto.encrypt(&mut flow)
CrEncrypt ==
    /\ crn < MaxOps
    /\ \E iv \in Ivs :
        \E r \in {IF crprov = "openssl"
                  THEN OpensslEncrypt(crconn, crflow, iv)
                  ELSE RustCryptoEncrypt(crconn, crflow, iv)} :
            /\ crflow' = r.flow
            /\ crret' = r.ret
    /\ crconn' = IF crflow.secret.some
                 THEN SharedKeyCopy(crconn).self
                 ELSE crconn
    /\ crop' = "encrypt"
    /\ crplain' = crflow.secret
    /\ crn' = crn + 1
    /\ UNCHANGED <<crprov, notcr>>

\* crypto.decrypt(&mut flow)
CrDecrypt ==
    /\ crn < MaxOps
    /\ \E short_iv \in OpensslShortIv :
        \E r \in {IF crprov = "openssl"
                  THEN OpensslDecrypt(crconn, crflow, short_iv)
                  ELSE RustCryptoDecrypt(crconn, crflow)} :
            /\ crflow' = r.flow
            /\ crret' = r.ret
    /\ crconn' = IF crflow.secret.some
                 THEN SharedKeyCopy(crconn).self
                 ELSE crconn
    /\ crop' = "decrypt"
    /\ crn' = crn + 1
    /\ UNCHANGED <<crprov, crplain, notcr>>

\* the driver's read gives the flow the secret and the salt the daemon
\* returned
CrGive ==
    /\ \E s \in CrSecrets, salt \in Salts :
        crflow' = FlowGiveSalt(FlowGiveSecret(crflow, s), salt)
    /\ crop' = "give"
    /\ UNCHANGED <<crprov, crconn, crret, crplain, crn, notcr>>

\* the driver's write takes the secret and the salt out of the flow
CrTake ==
    /\ crflow' = FlowTakeSalt(FlowTakeSecret(crflow).self).self
    /\ crop' = "take"
    /\ UNCHANGED <<crprov, crconn, crret, crplain, crn, notcr>>

\* ------------------------------------------------------------------------
\* src/src/secret_service_blocking/crypto/openssl.rs: two sides agree on a
\* key
\* ------------------------------------------------------------------------

\* private exponents the RNG may draw: zero, one, small ones, the order of
\* the generator's subgroup, the prime less one, and above the prime
DhPrivates == {0, 1, 2, 3, 77, 1019, 2038, 2500, 40000}

\* public key bytes a peer may send without having drawn a keypair:
\* nothing, zero, one, zero with leading zero bytes, the prime less one, the
\* prime, and above the prime
DhRawPublics ==
    {<<>>, <<0>>, <<1>>, <<0, 0, 5>>, ToBytesBe(DH_PRIME - 1),
     ToBytesBe(DH_PRIME), <<180, 0>>}

DhFresh(priv, peer, peerpriv) ==
    /\ dhpriv = priv
    /\ dhpeer = peer
    /\ dhpeerpriv = peerpriv
    /\ dhikm = None
    /\ dhkey = None
    /\ dhpeerkey = None

DhIdle == DhFresh(0, <<>>, None)

\* Keypair::generate() on this side; the peer's public key bytes arrived,
\* from a peer that drew a keypair or not
DhInit ==
    \E priv \in DhPrivates :
        \/ \E p \in DhPrivates :
            DhFresh(priv, ToBytesBe(Keypair(p).public), Some(p))
        \/ \E bytes \in DhRawPublics : DhFresh(priv, bytes, None)

\* keypair.derive_shared(peer public key bytes) on this side
DhDeriveShared ==
    /\ ~dhkey.some
    /\ dhikm' = Some(common_secret_padded(Keypair(dhpriv), dhpeer))
    /\ dhkey' = Some(derive_shared(Keypair(dhpriv), dhpeer))
    /\ UNCHANGED <<dhpriv, dhpeer, dhpeerpriv, dhpeerkey, notdh>>

\* the peer's keypair.derive_shared(this side's public key bytes)
DhPeerDeriveShared ==
    /\ dhpeerpriv.some
    /\ ~dhpeerkey.some
    /\ dhpeerkey' = Some(derive_shared(Keypair(dhpeerpriv.val),
                                       OpenSessionInput(Keypair(dhpriv))))
    /\ UNCHANGED <<dhpriv, dhpeer, dhpeerpriv, dhikm, dhkey, notdh>>

\* ------------------------------------------------------------------------
\* two instances of one coroutine (src/src/coroutines), flow (src/src/flows)
\* or entry flow (src/src/secret_service/dbus_blocking/flow.rs), built from
\* the same arguments; the second is given the calls of the first, later
\* ------------------------------------------------------------------------

\* longest sequence of calls made on the first instance
MaxTape == 3

Twin(family, self) == [family |-> family, self |-> self]

\* new(..) of every kind, on one session for the entry flows
TwBuilt ==
    {Twin("coroutine", c) : c \in CoBuilt}
    \cup {Twin("flow", f) : f \in FlBuilt}
    \cup {Twin("entry", f) :
            f \in {ReadEntryFlowNew("/session/1")}
                  \cup {WriteEntryFlowNew("/session/1", s) :
                          s \in ByteSecrets}}

TwCall(op, arg) == [op |-> op, arg |-> arg]

\* the inputs handed to resume(Some(io)): one of every shape
TwIoInputs ==
    {IoUnavailableInput, IoUnexpectedInput(IoUnavailableInput),
     IoWrite(Ok(Unit)), IoDelete(Ok(Unit)),
     IoRead(Err(Entry("svc", "a"))), IoDelete(Err(Entry("svc", "a"))),
     IoWrite(Err(WriteInput(Entry("svc", "a"), "s1")))}
    \cup {IoRead(Ok(s)) : s \in SecretStrings}

\* the calls a caller or a driver can make on an instance
TwCalls(family) ==
    CASE family = "coroutine" ->
           {TwCall("resume", None)}
           \cup {TwCall("resume", Some(io)) : io \in TwIoInputs}
      [] family = "flow" ->
           {TwCall("next", None), TwCall("done", None),
            TwCall("take_secret", None)}
           \cup {TwCall("set_secret", Some(s)) : s \in SecretStrings}
      [] family = "entry" ->
           {TwCall("next", None), TwCall("take_secret", None),
            TwCall("take_salt", None)}
           \cup {TwCall("give_secret", Some(s)) : s \in ByteSecrets}
           \cup {TwCall("give_salt", Some(s)) : s \in Salts}

\* one call on an instance: the instance afterwards and what was returned
TwStep(m, call) ==
    CASE m.family = "coroutine" ->
           LET r == Resume(m.self, call.arg) IN
           [m |-> Twin(m.family, r.self), ret |-> r.ret]
      [] m.family = "flow" /\ call.op = "next" ->
           LET r == FlowNext(m.self) IN
           [m |-> Twin(m.family, r.self), ret |-> r.ret]
      [] m.family = "flow" /\ call.op = "done" ->
           [m |-> Twin(m.family,
                       [m.self EXCEPT !.state = StateDone(m.self.state)]),
            ret |-> Unit]
      [] m.family = "flow" /\ call.op = "set_secret" ->
           [m |-> Twin(m.family,
                       [m.self EXCEPT
                           !.state = StateSetSecret(m.self.state,
                                                    call.arg.val)]),
            ret |-> Unit]
      [] m.family = "flow" /\ call.op = "take_secret" ->
           LET t == StateTakeSecret(m.self.state) IN
           [m |-> Twin(m.family, [m.self EXCEPT !.state = t.state]),
            ret |-> t.taken]
      [] m.family = "entry" /\ call.op = "next" ->
           LET r == EntryFlowNext(m.self) IN
           [m |-> Twin(m.family, r.self), ret |-> r.ret]
      [] m.family = "entry" /\ call.op = "take_secret" ->
           LET t == FlowTakeSecret(m.self) IN
           [m |-> Twin(m.family, t.self), ret |-> t.taken]
      [] m.family = "entry" /\ call.op = "take_salt" ->
           LET t == FlowTakeSalt(m.self) IN
           [m |-> Twin(m.family, t.self), ret |-> t.taken]
      [] m.family = "entry" /\ call.op = "give_secret" ->
           [m |-> Twin(m.family, FlowGiveSecret(m.self, call.arg.val)),
            ret |-> Unit]
      [] m.family = "entry" /\ call.op = "give_salt" ->
           [m |-> Twin(m.family, FlowGiveSalt(m.self, call.arg.val)),
            ret |-> Unit]

\* both instances right after new(..)
TwFresh(m) ==
    /\ twtape = <<>>
    /\ twa = m
    /\ twb = m
    /\ twouta = <<>>
    /\ twoutb = <<>>

TwIdle == TwFresh(Twin("coroutine", CoNewRead(Entry("svc", "a"))))

TwInit == \E m \in TwBuilt : TwFresh(m)

\* a call on the first instance
TwCallFirst ==
    \E call \in TwCalls(twa.family) :
        /\ Len(twtape) < MaxTape
        /\ \E r \in {TwStep(twa, call)} :
            /\ twa' = r.m
            /\ twouta' = Append(twouta, r.ret)
        /\ twtape' = Append(twtape, call)
        /\ UNCHANGED <<twb, twoutb, nottw>>

\* the next call of the tape on the second instance
TwCallSecond ==
    /\ Len(twoutb) < Len(twtape)
    /\ \E r \in {TwStep(twb, twtape[Len(twoutb) + 1])} :
        /\ twb' = r.m
        /\ twoutb' = Append(twoutb, r.ret)
    /\ UNCHANGED <<twtape, twa, twouta, nottw>>

\* ------------------------------------------------------------------------
\* the caller and the driver of a ReadEntry flow
\* ------------------------------------------------------------------------

ReFresh(key) ==
    /\ re = ReadEntryNew(key)
    /\ reop = "new"
    /\ reret = None
    /\ retaken = None
    /\ recalls = 0

ReIdle == ReFresh("a")

ReInit == \E key \in Names : ReFresh(key)

\* flow.next()
ReNext ==
    /\ recalls < MaxCalls
    /\ \E r \in {ReadEntryNext(re)} :
        /\ re' = r.self
        /\ reret' = r.ret
    /\ reop' = "next"
    /\ recalls' = recalls + 1
    /\ UNCHANGED <<retaken, notre>>

\* flow.take_secret()
ReTakeSecret ==
    /\ recalls < MaxCalls
    /\ \E r \in {ReadEntryTakeSecret(re)} :
        /\ re' = r.self
        /\ retaken' = r.ret
    /\ reop' = "take_secret"
    /\ recalls' = recalls + 1
    /\ UNCHANGED <<reret, notre>>

\* the driver services Io::Read: it puts a secret into flow.as_mut()
RePutSecret ==
    /\ recalls < MaxCalls
    /\ \E s \in SecretStrings :
        re' = [re EXCEPT !.state = LibStatePutSecret(re.state, s)]
    /\ reop' = "put_secret"
    /\ recalls' = recalls + 1
    /\ UNCHANGED <<reret, retaken, notre>>

\* ------------------------------------------------------------------------
\* src/src/secret_service_blocking/crypto/openssl.rs: derive_shared over an
\* HKDF that OpenSSL may refuse
\* ------------------------------------------------------------------------

HkFresh(priv, peer) ==
    /\ hkpriv = priv
    /\ hkpeer = peer
    /\ hkret = None
    /\ hkkey = None

HkIdle == HkFresh(0, <<>>)

\* Keypair::generate() drew the private exponent; the peer's public key
\* bytes arrived
HkInit ==
    \E priv \in DhPrivates :
        \/ \E p \in DhPrivates : HkFresh(priv, ToBytesBe(Keypair(p).public))
        \/ \E bytes \in DhRawPublics : HkFresh(priv, bytes)

\* keypair.derive_shared(peer public key bytes); OpenSSL derives or fails
HkDeriveShared ==
    /\ ~hkret.some
    /\ \E fault \in BOOLEAN :
        \E r \in {derive_shared_hkdf(Keypair(hkpriv), hkpeer, fault)} :
            /\ hkret' = Some(r.hkdf)
            /\ hkkey' = r.key
    /\ UNCHANGED <<hkpriv, hkpeer, nothk>>

\* ------------------------------------------------------------------------
\* pow_base_exp_mod of src/src/secret_service_blocking/crypto/openssl.rs on
\* small arguments
\* ------------------------------------------------------------------------

\* the largest base and exponent, and the largest modulus
MaxPow == 6

PwFresh(base, exp, modulus) ==
    /\ pwbase = base
    /\ pwexp = exp
    /\ pwmod = modulus
    /\ pwret = None

PwIdle == PwFresh(0, 0, 1)

\* BigUint arguments: base >= 0, exp >= 0, modulus >= 1
PwInit ==
    \E base \in 0..MaxPow, exp \in 0..MaxPow, modulus \in 1..(MaxPow + 1) :
        PwFresh(base, exp, modulus)

\* pow_base_exp_mod(&base, &exp, &modulus)
PwCall ==
    /\ ~pwret.some
    /\ pwret' = Some(pow_base_exp_mod(pwbase, pwexp, pwmod))
    /\ UNCHANGED <<pwbase, pwexp, pwmod, notpw>>

\* ------------------------------------------------------------------------
\* specifications
\* ------------------------------------------------------------------------

CoNext == CoNew \/ CoResumeNone \/ CoResumeSome

InitCoroutines ==
    /\ CoInit /\ FlIdle /\ EfIdle /\ SsIdle /\ PrIdle /\ CrIdle /\ DhIdle
    /\ TwIdle /\ ReIdle /\ PwIdle /\ HkIdle

SpecCoroutines == InitCoroutines /\ [][CoNext]_vars

FlowsNext == FlNew \/ FlNext \/ FlHandle

InitFlows ==
    /\ FlInit /\ CoIdle /\ EfIdle /\ SsIdle /\ PrIdle /\ CrIdle /\ DhIdle
    /\ TwIdle /\ ReIdle /\ PwIdle /\ HkIdle

SpecFlows == InitFlows /\ [][FlowsNext]_vars

EntryFlowNextAction ==
    EfNew \/ EfNext \/ EfTakeSecret \/ EfTakeSalt \/ EfGiveSecret
    \/ EfGiveSalt

InitEntryFlow ==
    /\ EfInit /\ CoIdle /\ FlIdle /\ SsIdle /\ PrIdle /\ CrIdle /\ DhIdle
    /\ TwIdle /\ ReIdle /\ PwIdle /\ HkIdle

SpecEntryFlow == InitEntryFlow /\ [][EntryFlowNextAction]_vars

SecretServiceNext ==
    SsNew \/ SsEncrypt \/ SsDecrypt \/ SsRead \/ SsWrite \/ SsDelete

InitSecretService ==
    /\ SsInit /\ CoIdle /\ FlIdle /\ EfIdle /\ PrIdle /\ CrIdle /\ DhIdle
    /\ TwIdle /\ ReIdle /\ PwIdle /\ HkIdle

SpecSecretService == InitSecretService /\ [][SecretServiceNext]_vars

PromptNext == PrMatchSignal \/ PrPrompt \/ PrProcess \/ PrMatchStop

InitPrompt ==
    /\ PrInit /\ CoIdle /\ FlIdle /\ EfIdle /\ SsIdle /\ CrIdle /\ DhIdle
    /\ TwIdle /\ ReIdle /\ PwIdle /\ HkIdle

SpecPrompt == InitPrompt /\ [][PromptNext]_vars

CryptoNext == CrNew \/ CrEncrypt \/ CrDecrypt \/ CrGive \/ CrTake

InitCrypto ==
    /\ CrInit /\ CoIdle /\ FlIdle /\ EfIdle /\ SsIdle /\ PrIdle /\ DhIdle
    /\ TwIdle /\ ReIdle /\ PwIdle /\ HkIdle

SpecCrypto == InitCrypto /\ [][CryptoNext]_vars

DhNext == DhDeriveShared \/ DhPeerDeriveShared

InitDh ==
    /\ DhInit /\ CoIdle /\ FlIdle /\ EfIdle /\ SsIdle /\ PrIdle /\ CrIdle
    /\ TwIdle /\ ReIdle /\ PwIdle /\ HkIdle

SpecDh == InitDh /\ [][DhNext]_vars

FlowLoopNext == LoopNext \/ LoopHandle

InitFlowLoop ==
    /\ FlInit /\ CoIdle /\ EfIdle /\ SsIdle /\ PrIdle /\ CrIdle /\ DhIdle
    /\ TwIdle /\ ReIdle /\ PwIdle /\ HkIdle

\* the loop does not stop by itself between two calls
SpecFlowLoop ==
    InitFlowLoop /\ [][FlowLoopNext]_vars /\ WF_vars(FlowLoopNext)

ReadEntryNextAction == ReNext \/ ReTakeSecret \/ RePutSecret

InitReadEntry ==
    /\ ReInit /\ CoIdle /\ FlIdle /\ EfIdle /\ SsIdle /\ PrIdle /\ CrIdle
    /\ DhIdle /\ TwIdle /\ PwIdle /\ HkIdle

SpecReadEntry == InitReadEntry /\ [][ReadEntryNextAction]_vars

HkdfNext == HkDeriveShared

InitHkdf ==
    /\ HkInit /\ CoIdle /\ FlIdle /\ EfIdle /\ SsIdle /\ PrIdle /\ CrIdle
    /\ DhIdle /\ TwIdle /\ ReIdle /\ PwIdle

SpecHkdf == InitHkdf /\ [][HkdfNext]_vars

PowNext == PwCall

InitPow ==
    /\ PwInit /\ CoIdle /\ FlIdle /\ EfIdle /\ SsIdle /\ PrIdle /\ CrIdle
    /\ DhIdle /\ TwIdle /\ ReIdle /\ HkIdle

SpecPow == InitPow /\ [][PowNext]_vars

TwinsNext == TwCallFirst \/ TwCallSecond

InitTwins ==
    /\ TwInit /\ CoIdle /\ FlIdle /\ EfIdle /\ SsIdle /\ PrIdle /\ CrIdle
    /\ DhIdle /\ ReIdle /\ PwIdle /\ HkIdle

SpecTwins == InitTwins /\ [][TwinsNext]_vars

\* ---- claims about the coroutines ----

IsUnexpected(r) == ~r.ok /\ r.v.tag = "UnexpectedInput"

\* the request a coroutine of this kind emits for the arguments of new
Request(kind, args) ==
    CASE kind = "Read" -> IoRead(Err(args))
      [] kind = "Write" -> IoWrite(Err(args))
      [] kind = "Delete" -> IoDelete(Err(args))

\* io is the successful completion of the operation of this kind
IsCompletion(kind, io) ==
    /\ io.tag = kind
    /\ io.tag \in {"Read", "Write", "Delete"}
    /\ io.res.ok

\* C8: once resume has returned Io::UnexpectedInput, every later resume on
\* the same coroutine, with any input, returns Io::UnexpectedInput again.
C8_UnexpectedInputIsSticky ==
    [][(IsUnexpected(coret) /\ cocalls' = cocalls + 1)
        => IsUnexpected(coret')]_vars

\* C9: the first resume(None) returns the request carrying exactly the
\* arguments given to new, and every later resume(None) returns
\* Io::UnavailableInput, whatever was passed in between.
C9_RequestEmittedOnce ==
    (cocalls > 0 /\ ~coarg.some) =>
        IF conones = 1
        THEN coret = Err(Request(co.kind, conew))
        ELSE coret = Err(IoUnavailableInput)

\* a second resume(None), made after some resume(Some(io)), was refused
C9_Witness ==
    /\ ~coarg.some
    /\ conones >= 2
    /\ cocalls > conones
    /\ coret = Err(IoUnavailableInput)

\* C10: resume(Some(io)) returns Ok exactly for the matching successful
\* completion (with the secret of Io::Read(Ok(secret)) for Read); for every
\* other io it returns Err(Io::UnexpectedInput(io)) with io unchanged, and
\* the stored input of the coroutine is left as it was.
C10_ResumeSomeMatchesOrRejects ==
    [][\A io \in IoInputs :
        (coarg' = Some(io) /\ cocalls' = cocalls + 1) =>
            IF IsCompletion(co.kind, io)
            THEN coret' = Ok(IF co.kind = "Read" THEN io.res.v ELSE Unit)
            ELSE /\ coret' = Err(IoUnexpectedInput(io))
                 /\ co'.input = co.input]_vars

\* a Delete coroutine that still holds its input was handed its own request
\* back and rejected it
C10_Witness ==
    /\ co.kind = "Delete"
    /\ co.input.some
    /\ coarg.some
    /\ coarg.val.tag = "Delete"
    /\ ~coarg.val.res.ok
    /\ coret = Err(IoUnexpectedInput(coarg.val))

\* ---- claims about the capability-style flows ----

\* C3: a Write flow returns Err(Io::Write) from next() until a handler has
\* written the secret and marked the state done: it never returns Ok(())
\* before one Io::Write step has been emitted and serviced.
C3_WriteNotOkBeforeServiced ==
    (fl.kind = "Write" /\ flret.ok) => (flemit >= 1 /\ flserved >= 1)

\* C7: once next() has returned Ok, a later next() made without any handler
\* acting on the state in between does not return an I/O step again.
C7_NoStepAfterOk ==
    [][(flret.ok /\ ~fltouched /\ flcalls' = flcalls + 1)
        => flret'.ok]_vars

\* ---- claims about the Secret Service entry flows ----

\* the i-th result of next() on a read flow, and on a write flow
ReadSteps(i) ==
    IF i = 1 THEN Some(IoEntry("Read"))
    ELSE IF i = 2 THEN Some(IoCrypto("Decrypt"))
    ELSE None

WriteSteps(i) ==
    IF i = 1 THEN Some(IoCrypto("Encrypt"))
    ELSE IF i = 2 THEN Some(IoEntry("Write"))
    ELSE None

\* C4: on a Dh session, successive next() calls on a ReadEntryFlow return
\* Entry(Read), then Crypto(Decrypt), then None on every further call,
\* whatever the driver does to the flow's secret and salt in between.
C4_ReadFlowSequence ==
    (efconn.encryption = "Dh" /\ ef.kind = "Read") =>
        \A i \in 1..Len(efout) : efout[i] = ReadSteps(i)

\* a read flow on a Dh session was run past its end while the driver had
\* given it a secret and a salt
C4_Witness ==
    /\ efconn.encryption = "Dh"
    /\ ef.kind = "Read"
    /\ Len(efout) >= 4
    /\ ef.secret.some
    /\ ef.salt.some

\* C5: on a Dh session, successive next() calls on a WriteEntryFlow return
\* Crypto(Encrypt), then Entry(Write), then None on every further call:
\* Encrypt always comes before Write.
C5_WriteFlowSequence ==
    (efconn.encryption = "Dh" /\ ef.kind = "Write") =>
        \A i \in 1..Len(efout) : efout[i] = WriteSteps(i)

\* a write flow on a Dh session was run past its end, its secret taken
C5_Witness ==
    /\ efconn.encryption = "Dh"
    /\ ef.kind = "Write"
    /\ Len(efout) >= 4
    /\ ~ef.secret.some

\* C6: on a Plain session the read and write flows never emit a crypto
\* step: the read flow emits only Entry(Read), the write flow only
\* Entry(Write).
C6_PlainEmitsNoCrypto ==
    efconn.encryption = "Plain" =>
        \A i \in 1..Len(efout) :
            efout[i].some =>
                efout[i].val = IoEntry(IF ef.kind = "Read" THEN "Read"
                                       ELSE "Write")

\* C11: a flow does not produce its following step before the driver has
\* acknowledged the current one: next() yields Crypto(Decrypt) on a read
\* flow, or Entry(Write) on a write flow, only if a driver gave the flow a
\* secret after the step before it (Entry(Read), Crypto(Encrypt)) was
\* emitted.
C11_NextWaitsForDriver ==
    [][(/\ Len(efout') = Len(efout) + 1
        /\ efout'[Len(efout')] \in {Some(IoCrypto("Decrypt")),
                                    Some(IoEntry("Write"))})
       => efgiven]_vars

\* ---- claims about the Secret Service driver ----

\* the steps of a whole read and of a whole write on this session
ReadPipeline ==
    IF ssconn.session.encryption = "Dh" THEN <<"Read", "Decrypt">>
    ELSE <<"Read">>

WritePipeline ==
    IF ssconn.session.encryption = "Dh" THEN <<"Encrypt", "Write">>
    ELSE <<"Write">>

\* C1: on a Plain and on a Dh session, when a write of secret S to entry E
\* ran to completion without error and no other write or delete of E came
\* after it, a read of E that ran to completion (Read, and Decrypt on Dh)
\* leaves exactly the bytes S as the flow's secret.
C1_RoundTrip ==
    (~sfplain.some /\ OpsOk(ssops, ReadPipeline) /\ written[SsEntry].some)
        => sf.secret = written[SsEntry]

\* a Dh read of a 16-byte secret ran to completion after its write
C1_Witness ==
    /\ ssconn.session.encryption = "Dh"
    /\ ~sfplain.some
    /\ OpsOk(ssops, ReadPipeline)
    /\ written[SsEntry].some
    /\ Len(written[SsEntry].val) = AES_BLOCK_BYTES
    /\ sf.secret = written[SsEntry]

C12_EmptyWriteFailsFirst ==
    [][(ssop' = "Write" /\ ~sf.secret.some)
       => /\ ssret' = Err(SsError("WriteEmptySecretError"))
          /\ sscalls' = <<>>
          /\ sf' = sf
          /\ dm' = dm]_vars

\* a write was refused on a flow that held a salt and no secret
C12_Witness ==
    /\ ssop = "Write"
    /\ ssret = Err(SsError("WriteEmptySecretError"))
    /\ sscalls = <<>>
    /\ sf.salt.some
    /\ ~sf.secret.some

\* the calls of get_default_collection in their order, the error each one
\* is wrapped in, whether the k-th found nothing on daemon d, and the
\* collection the lookup ends on when no call fails
GdcOrder ==
    <<"ReadAlias(default)", "ReadAlias(session)", "Collections",
      "CreateCollection">>

GdcErrors ==
    <<"GetDefaultCollectionError", "GetSessionCollectionError",
      "GetCollectionsError", "CreateDefaultCollectionError">>

GdcEmpty(d, k) ==
    CASE k = 1 -> d.default = EmptyPath
      [] k = 2 -> d.session = EmptyPath
      [] k = 3 -> d.collections = <<>>
      [] OTHER -> FALSE

FirstCollection(d) ==
    IF d.default # EmptyPath THEN d.default
    ELSE IF d.session # EmptyPath THEN d.session
    ELSE IF d.collections # <<>> THEN Head(d.collections)
    ELSE "/collection/default"

\* C13: every read, write and delete that reaches the daemon begins with
\* the calls ReadAlias("default"), ReadAlias("session"), Collections,
\* CreateCollection in this order, each made once and only if every
\* earlier one succeeded and found nothing; a call that fails ends the
\* operation with that call's error and no further call; the lookup stops
\* at the first call that finds a collection (after a non-empty session
\* alias neither Collections nor CreateCollection is called), and a write
\* stores into that collection.
C13_DefaultCollectionOrder ==
    [][(ssop' \in {"Read", "Write", "Delete"} /\ sscalls' # <<>>)
       => LET n == Cardinality({i \in 1..Len(sscalls') :
                          \E k \in 1..4 : sscalls'[i] = GdcOrder[k]})
          IN  /\ n \in 1..4
              /\ SubSeq(sscalls', 1, n) = SubSeq(GdcOrder, 1, n)
              /\ \A k \in 1..(n - 1) : GdcEmpty(dm, k)
              /\ \A k \in 1..4 :
                    ssret' = Err(SsError(GdcErrors[k]))
                        => n = k /\ Len(sscalls') = k
              /\ GdcEmpty(dm, n) => ssret' = Err(SsError(GdcErrors[n]))
              /\ (ssop' = "Write" /\ ssret'.ok)
                    => /\ dm'.items[FirstCollection(dm)][SsEntry].some
                       /\ \A c \in CollectionPaths \ {FirstCollection(dm)} :
                            dm'.items[c] = dm.items[c]]_vars

\* the session alias named a collection: a write looked up the two aliases
\* and went on to CreateItem
C13_Witness ==
    /\ dm.default = EmptyPath
    /\ dm.session # EmptyPath
    /\ ssop = "Write"
    /\ ssret.ok
    /\ sscalls = <<"ReadAlias(default)", "ReadAlias(session)", "CreateItem">>
    /\ dm.items[dm.session][SsEntry].some

\* ---- claims about SecretService::prompt ----

C15_AtMost300Ticks == prticks <= 300

\* C16: once match_signal has returned its token, prompt() does not return
\* before it has called match_stop.
C16_MatchStopOnEveryExit ==
    (prpc = "returned" /\ prtoken)
        => \E i \in 1..Len(prcalls) : prcalls[i] = "match_stop"

\* ---- claims about the crypto connectors ----

\* C17: in both providers, encrypt on a flow without a secret returns
\* EncryptUndefinedSecretError and encrypt with a secret on a connector
\* without a shared key returns EncryptSecretMissingKeyError; decrypt
\* returns DecryptUndefinedSecretError and DecryptSecretMissingKeyError in
\* the same cases; none of these calls panics or leaves a secret in the
\* flow.
C17_CryptoErrorValues ==
    [][(crn' = crn + 1)
       => LET Name == IF crop' = "encrypt" THEN "Encrypt" ELSE "Decrypt" IN
          /\ ~crflow.secret.some
                => /\ crret' = Err(SsError(Name \o "UndefinedSecretError"))
                   /\ ~crflow'.secret.some
          /\ (crflow.secret.some /\ ~crconn.shared_key.some)
                => /\ crret' = Err(SsError(Name \o "SecretMissingKeyError"))
                   /\ ~crflow'.secret.some]_vars

\* C18: a decrypt that follows a successful encrypt on the same flow with
\* the same connector succeeds and leaves in the flow the secret it held
\* before the encrypt, and no salt.
C18_EncryptThenDecrypt ==
    [][(/\ crop = "encrypt"
        /\ crret.ok
        /\ crop' = "decrypt"
        /\ crn' = crn + 1)
       => /\ crret'.ok
          /\ crflow'.secret = crplain
          /\ crflow'.salt = None]_vars

\* the rust_crypto connector encrypted a secret one byte longer than a
\* block and decrypted it again
C18_Witness ==
    /\ crprov = "rust_crypto"
    /\ crconn.shared_key.some
    /\ crn = 2
    /\ crop = "decrypt"
    /\ crret.ok
    /\ crplain.some
    /\ Len(crplain.val) = AES_BLOCK_BYTES + 1
    /\ crflow.secret = crplain
    /\ ~crflow.salt.some

\* ---- claims about the Diffie-Hellman key agreement ----

\* C19: two sides that each drew a keypair and derived the shared key from
\* the other's public key bytes hold the same key, of 16 bytes.
C19_DeriveSharedSymmetric ==
    (dhkey.some /\ dhpeerkey.some)
        => /\ dhkey.val = dhpeerkey.val
           /\ Len(dhkey.val) = AES_KEY_BYTES

\* both sides derived the key, from different private exponents of which
\* one is above the prime, and the key is one other pairs do not get
C19_Witness ==
    /\ dhpriv = 2500
    /\ dhpeerpriv = Some(77)
    /\ dhkey.some
    /\ dhkey = dhpeerkey
    /\ dhkey.val # derive_shared(Keypair(3), ToBytesBe(Keypair(77).public))

\* C20: the input keying material of derive_shared is always DH_KEY_BYTES
\* long and is the big-endian form of peer_pub^private mod DH_PRIME behind
\* zero bytes, whatever bytes the peer sent (none, 0, 1, the prime, more
\* than the prime) and whatever the private exponent; the subtraction that
\* sizes the padding never goes below zero.
C20_IkmLength ==
    dhikm.some =>
        LET secret == pow_base_exp_mod(FromBytesBe(dhpeer), dhpriv, DH_PRIME)
            bytes == ToBytesBe(secret)
            pad == DH_KEY_BYTES - Len(bytes)
        IN  /\ dhikm.val.ok
            /\ pad >= 0
            /\ Len(dhikm.val.v) = DH_KEY_BYTES
            /\ \A i \in 1..pad : dhikm.val.v[i] = 0
            /\ SubSeq(dhikm.val.v, pad + 1, DH_KEY_BYTES) = bytes
            /\ FromBytesBe(dhikm.val.v) = secret

\* the peer sent more than the prime and the secret took a single byte: the
\* material was padded
C20_Witness ==
    /\ dhikm.some
    /\ dhpeer = <<180, 0>>
    /\ dhpriv = 3
    /\ dhikm.val = Ok(<<0, 193>>)

\* ---- more claims about the Secret Service driver ----

\* C21: on a Plain session the flow never holds a salt: a read leaves the
\* salt absent. (On a Dh session a read leaves the IV the daemon drew.)
C21_PlainFlowHasNoSalt ==
    ssconn.session.encryption = "Plain" => ~sf.salt.some

\* C22: a connector holds a shared key exactly when its session was
\* negotiated with Dh, and a session holds the daemon's output exactly when
\* it was built by new_dh; no call on the connectors changes this. Stated
\* for the rust_crypto connector and its session, and for the openssl
\* connector.
C22_SharedKeyIffDh ==
    /\ sscrypto.shared_key.some <=> (ssconn.session.encryption = "Dh")
    /\ ssconn.session.output.some <=> (ssconn.session.encryption = "Dh")
    /\ ssconn.session.keypair.some <=> (ssconn.session.encryption = "Dh")
    /\ efconn.shared_key.some <=> (efconn.encryption = "Dh")

\* a Dh session on which the connectors have read and decrypted an entry
C22_Witness ==
    /\ ssconn.session.encryption = "Dh"
    /\ sscrypto.shared_key.some
    /\ ssconn.session.output.some
    /\ ssop = "Decrypt"
    /\ ssret.ok
    /\ Len(ssops) = MaxOps

\* ---- claims about two instances given the same calls ----

Holding(e) == {c \in CollectionPaths : dm.items[c][e].some}

\* C24: after any sequence of writes and deletes the daemon holds at most
\* one item per (service, account); the item is the secret of the last
\* write of the entry when that write succeeded as a whole, and there is
\* none when a delete succeeded after it, whatever was written to or
\* deleted from other entries; a read of the entry that succeeds returns
\* that secret (on a Dh session: encrypted under the session key and the
\* salt it returns).
C24_OneItemLastWrite ==
    /\ \A e \in Entries :
        /\ Cardinality(Holding(e)) <= 1
        /\ written[e].some => \E c \in Holding(e) : dm.items[c][e] = written[e]
        /\ deleted[e] => Holding(e) = {}
    /\ (ssop = "Read" /\ ssret.ok /\ written[SsEntry].some)
        => IF ssconn.session.encryption = "Plain"
           THEN sf.secret = written[SsEntry]
           ELSE Aes128CbcDecrypt(sf.secret.val, sscrypto.shared_key.val,
                                 sf.salt.val) = Ok(written[SsEntry].val)

\* both entries were written with different secrets, and a read of the
\* first returned its own
C24_Witness ==
    /\ ssconn.session.encryption = "Dh"
    /\ ssop = "Read"
    /\ ssret.ok
    /\ sf.key = "a"
    /\ written[Entry("svc", "a")].some
    /\ written[Entry("svc", "b")].some
    /\ written[Entry("svc", "a")] # written[Entry("svc", "b")]

\* the calls made after the first call named name
CallsAfter(calls, name) ==
    LET k == CHOOSE i \in 1..Len(calls) : calls[i] = name /\
                 \A j \in 1..(i - 1) : calls[j] # name
    IN  SubSeq(calls, k + 1, Len(calls))

IsPrefix(s, t) == Len(s) <= Len(t) /\ SubSeq(t, 1, Len(s)) = s

Made(calls, name) == \E i \in 1..Len(calls) : calls[i] = name

\* C25: when CreateCollection (resp. CreateItem) succeeded and the daemon
\* answered with the empty path and a prompt, the operation goes on with
\* the calls of prompt(): if the prompt delivers a path the operation goes
\* on with the collection (resp. ends well with the item) created at that
\* path, and if the prompt fails the operation ends there with the prompt's
\* error; when the daemon answered with a path no call of prompt() is made.
C25_EmptyPathDrivesPrompt ==
    [][/\ (Made(sscalls', "CreateCollection")
           /\ ssret' # Err(SsError("CreateDefaultCollectionError")))
          => LET tail == CallsAfter(sscalls', "CreateCollection") IN
             IF dm.prompts
             THEN \E sc \in PromptScenarios :
                    LET p == prompt(sc, "/collection/default") IN
                    /\ IsPrefix(p.calls, tail)
                    /\ p.ret.ok
                        => /\ Len(tail) > Len(p.calls)
                           /\ dm'.default = p.ret.v
                    /\ ~p.ret.ok => tail = p.calls /\ ssret' = p.ret
             ELSE /\ tail # <<>>
                  /\ tail[1] \notin {"AddMatch", "Prompt", "RemoveMatch"}
       /\ (Made(sscalls', "CreateItem")
           /\ ssret' # Err(SsError("CreateItemError")))
          => LET tail == CallsAfter(sscalls', "CreateItem") IN
             IF dm.prompts
             THEN \E sc \in PromptScenarios :
                    LET p == prompt(sc, [coll |-> dm'.default,
                                         entry |-> SsEntry]) IN
                    /\ tail = p.calls
                    /\ p.ret.ok
                        => /\ ssret'.ok
                           /\ dm'.items[p.ret.v.coll][p.ret.v.entry].some
                    /\ ~p.ret.ok => ssret' = p.ret
             ELSE tail = <<>> /\ ssret'.ok]_vars

\* a write on a daemon that prompts was dismissed at the prompt of its
\* CreateItem
C25_Witness ==
    /\ dm.prompts
    /\ ssop = "Write"
    /\ sscalls = <<"ReadAlias(default)", "CreateItem", "AddMatch", "Prompt",
                   "RemoveMatch">>
    /\ ssret = Err(SsError("PromptDismissedError"))

\* C26: after encrypt succeeded on the secret a flow was built with, on a
\* Dh session, the flow's salt is 16 bytes and the flow's secret is
\* 16 * (len(plaintext) div 16 + 1) bytes; a write that follows and
\* succeeds takes both out of the flow and sends the salt as params and
\* the secret as value: the daemon stores what value decrypts to under
\* params.
C26_SaltAndCiphertextLength ==
    /\ []((ssop = "Encrypt" /\ OpsOk(ssops, <<"Encrypt">>) /\ sfplain.some)
          => /\ ssconn.session.encryption = "Dh"
             /\ Len(sf.salt.val) = 16
             /\ Len(sf.secret.val) = 16 * ((Len(sfplain.val) \div 16) + 1)
             /\ Len(sf.secret.val) > 0)
    /\ [][(ssop' = "Write" /\ ssret'.ok /\ OpsOk(ssops, <<"Encrypt">>))
          => /\ ~sf'.secret.some /\ ~sf'.salt.some
             /\ \E c \in CollectionPaths :
                    /\ dm'.items[c][SsEntry].some
                    /\ Ok(dm'.items[c][SsEntry].val)
                        = Aes128CbcDecrypt(sf.secret.val, dm.key.val,
                                           sf.salt.val)]_vars

\* a 16-byte secret was encrypted into two blocks, then written
C26_Witness ==
    /\ ssconn.session.encryption = "Dh"
    /\ sfplain.some
    /\ Len(sfplain.val) = 16
    /\ OpsOk(ssops, <<"Encrypt", "Write">>)
    /\ written[SsEntry] = sfplain

\* ---- more claims about the crypto connectors ----

\* C27: in both providers, decrypt with a shared key on a flow that holds a
\* secret and no salt returns the provider's decryption error
\* (DecryptSecretRustCryptoError, DecryptSecretOpensslError) and leaves no
\* secret in the flow; it does not panic.
C27_NoSaltDecryptFails ==
    [][(/\ crn' = crn + 1
        /\ crop' = "decrypt"
        /\ crflow.secret.some
        /\ ~crflow.salt.some
        /\ crconn.shared_key.some)
       => /\ crret' \in {Err(SsError("DecryptSecretRustCryptoError")),
                         Err(SsError("DecryptSecretOpensslError"))}
          /\ ~crflow'.secret.some]_vars

\* ---- more claims about the key agreement ----

\* C28: the input a Dh session sends with OpenSession, which the peer
\* derives its key from, is DH_KEY_BYTES long for every keypair drawn.
C28_InputIsKeyBytesLong ==
    dhpeerkey.some => Len(OpenSessionInput(Keypair(dhpriv))) = DH_KEY_BYTES

\* ---- more claims about SecretService::prompt ----

\* C29: prompt() returns PromptTimeoutError only after all the ticks of its
\* wait loop went by.
C29_TimeoutOnlyAfterFullWait ==
    (prpc = "returned" /\ prret = Err(SsError("PromptTimeoutError")))
        => prticks = PROMPT_TIMEOUT

\* C30: whatever match_stop returns, prompt() returns the outcome of its
\* wait: the path, the dismissal, the parse error or the timeout.
C30_MatchStopKeepsOutcome ==
    (prpc = "returned" /\ prcalls[Len(prcalls)] = "match_stop")
        => prret = prresult

\* ---- claims about a driver loop over a capability-style flow ----

\* C31: a loop that calls next() on a Read or Delete flow and hands every
\* step to the handler comes to an end: with next() returning Ok, or with
\* the handler's error. When next() returned Ok exactly one step was
\* emitted and serviced, it was the flow's own (Io::Read, Io::Delete), and
\* a Read returned the secret the handler set, the entry's password. A
\* next() on a Read whose state holds no secret (on a Delete whose state is
\* not done) returns the step and leaves the state as it is.
C31_LoopTerminates ==
    /\ <>(LoopDone \/ LoopFailed)
    /\ []((LoopDone /\ fl.kind \in {"Read", "Delete"})
          => /\ flemit = 1
             /\ flserved = 1
             /\ flcalls = 2
             /\ fl.kind = "Read" => flret = Ok(keychain[fl.state.entry].val))
    /\ [][(flcalls' = flcalls + 1 /\ fl.kind \in {"Read", "Delete"}
           /\ IF fl.kind = "Read" THEN ~fl.state.secret.some
              ELSE fl.state.done # Some(TRUE))
          => /\ flret' = Err(FlowIo(fl.kind))
             /\ fl'.state = fl.state]_vars

\* a Read loop ended with the password after one serviced step
C31_Witness ==
    /\ fl.kind = "Read"
    /\ flret = Ok("s2")
    /\ flemit = 1
    /\ flserved = 1
    /\ hret = Ok(Unit)

\* ---- claims about the ReadEntry flow ----

\* C32: ReadEntry::next() returns Some(Io::Read) exactly when the state
\* holds no secret, None otherwise, and leaves the flow as it was; a next()
\* that follows a take_secret() returns Some(Io::Read).
C32_NextLooksOnly ==
    [][(reop' = "next" /\ recalls' = recalls + 1)
       => /\ reret' = (IF re.state.secret.some THEN None
                       ELSE Some(FlowIo("Read")))
          /\ re' = re
          /\ reop = "take_secret" => reret' = Some(FlowIo("Read"))]_vars

\* the secret was put, next() returned None, the caller took the secret and
\* next() asked for a read again
C32_Witness ==
    /\ retaken.some
    /\ reop = "next"
    /\ reret = Some(FlowIo("Read"))
    /\ ~re.state.secret.some

\* ---- claims about pow_base_exp_mod ----

RECURSIVE Power(_, _)
\* base to the power exp, by repeated multiplication
Power(base, exp) == IF exp = 0 THEN 1 ELSE base * Power(base, exp - 1)

\* C33: pow_base_exp_mod(base, exp, modulus) is base^exp mod modulus for
\* every base >= 0, exp >= 0 and modulus >= 1, exp = 0 and modulus = 1
\* included; the result is smaller than the modulus.
C33_PowIsPowerMod ==
    pwret.some
        => /\ pwret.val = Power(pwbase, pwexp) % pwmod
           /\ pwret.val < pwmod

\* ---- claims about the HKDF step of derive_shared ----

\* C34: when the HKDF derivation fails, derive_shared returns no key: the
\* failure is not covered by a key of its own, such as sixteen zero bytes.
C34_NoKeyWhenHkdfFails ==
    (hkret.some /\ ~hkret.val.ok) => ~hkkey.some

\* ---- claims about what the crypto connector keeps ----

\* C35: encrypt and decrypt leave the connector's shared key and session
\* path as they were, whether the call returns Ok or an error; so after any
\* number of calls the connector is the one that was constructed.
C35_ConnectorUntouched ==
    [][(crop' \in {"encrypt", "decrypt"} /\ crn' = crn + 1)
       => /\ crconn'.shared_key = crconn.shared_key
          /\ crconn'.session_path = crconn.session_path]_vars

\* a connector with a key made two calls, the second a decrypt that
\* failed, and still holds a key
C35_Witness ==
    /\ crn = 2
    /\ crop = "decrypt"
    /\ ~crret.ok
    /\ crconn.shared_key.some
    /\ crconn.session_path = "/session/1"

\* C36: when encrypt or decrypt of the rust_crypto connector returns an
\* error (no secret in the flow, no key in the connector, bad padding), the
\* flow holds the secret and the salt it held before the call.
C36_FailedCryptoKeepsFlow ==
    [][(/\ crprov = "rust_crypto"
        /\ crop' \in {"encrypt", "decrypt"}
        /\ crn' = crn + 1
        /\ ~crret'.ok
        /\ crret'.v # SsError("panic"))
       => /\ crflow'.secret = crflow.secret
          /\ crflow'.salt = crflow.salt]_vars

\* ---- claims about a write handler that fails ----

\* the step is handlers::std::write on the flow's state, the platform
\* behaving as `fault` says
WriteHandled(fault) ==
    LET r == HandlerWrite(fl.state, keychain, fault) IN
    /\ flhandled' = flhandled + 1
    /\ fl'.state = r.state
    /\ keychain' = r.kc
    /\ hret' = r.ret

\* C37: a write handler that fails after it found a secret in the state
\* leaves the secret in the state and the state not done, so the flow can
\* be handled again; on a state without a secret it returns NoEntry, does
\* not touch the keychain and does not mark the state done.
C37_FailedWriteKeepsSecret ==
    [][\A fault \in HandlerFaults :
        WriteHandled(fault)
            => /\ (fl.state.secret.some /\ ~hret'.ok)
                   => /\ fl'.state.secret = fl.state.secret
                      /\ fl'.state.done # Some(TRUE)
               /\ ~fl.state.secret.some
                   => /\ hret' = Err(KeyringError("NoEntry"))
                      /\ keychain' = keychain
                      /\ fl'.state.done = fl.state.done]_vars

\* ---- claims about the order of request and output ----

\* C38: a coroutine has returned its output (Ok) only if it emitted its I/O
\* request before, that is, only if it was resumed with None since it was
\* built; a resume with the matching completion on a coroutine never
\* resumed with None does not return Ok.
C38_OutputOnlyAfterRequest ==
    coret.ok => conones > 0

====
